---- MODULE Spec2Model ----
(***************************************************************************)
(* Model of the price-data ingestion pipeline:                             *)
(*   - the deduplication engine (crud.py: PriceDataCRUD.create / update /  *)
(*     exists_by_unique_key / exists_batch_by_unique_key and               *)
(*     bulk_create_or_update) over the price_data table (models.py);       *)
(*   - the fetch client's retry loop (scraper.py: _make_request);          *)
(*   - the pagination driver (scraper.py: scrape_all_pages);               *)
(*   - the orchestrator (data_manager.py: sync_data) and the rate limiter  *)
(*     around _make_request;                                               *)
(*   - the price listing with trend data (api.py: get_prices, crud.py:     *)
(*     get_price_trend_data).                                              *)
(*                                                                         *)
(* Python values are encoded as strings: a text value is itself, None is   *)
(* the sentinel None, a key missing from a dict is the sentinel Absent, a  *)
(* float is its Python repr ("4.5"), a datetime is its canonical           *)
(* '%Y-%m-%d %H:%M:%S' rendering.  SQL NULL is None.                        *)
(***************************************************************************)
EXTENDS Integers, Sequences, FiniteSets, TLC

VARIABLES
    \* ---- storage and the history of the calls made on it
    rows,        \* the price_data table: a set of row records
    rowsBefore,  \* the table as it was before the last call
    callNo,      \* number of calls made on the storage so far
    lastOp,      \* "none" | "bulk" | "create"
    lastArg,     \* the batch of the last call (a one-record batch for create)
    lastRes,     \* its result
    prevOp,      \* the same three for the call before the last one
    prevArg,
    prevRes,
    \* ---- one _make_request call
    reqPc,       \* "idle" | "try" | "sleep" | "done"
    attempt,     \* the loop variable of _make_request
    posts,       \* number of session.post calls made by the current call
    sleeps,      \* durations of the time.sleep calls made by the current call
    outcomes,    \* what each attempt of the current call met, in order
    reqResult,   \* the value returned by the call
    \* ---- one scrape_all_pages call
    pgPc,        \* "idle" | "fetch" | "sleep" | "done"
    limit,       \* page size
    max_pages,   \* page cap, 0 encodes None
    has_callback,\* whether save_callback was supplied
    current_page,
    total_count, \* -1 encodes None
    total_pages,
    all_records, \* the accumulation buffer
    requested,   \* page numbers passed to scrape_page, in order
    responses,   \* what scrape_page returned for each of them
    delivered,   \* pages handed to save_callback, in order
    pgReturn,    \* the returned list
    pgRaised,    \* whether the call raised
    \* ---- sync_data runs
    syncPc,      \* "idle" | "scraping"
    runNo,       \* number of runs started so far
    days_back,   \* 0 encodes None
    immediate_save,
    total_records,       \* the three accumulators of save_callback
    total_new_count,
    total_updated_count,
    fetched,     \* the records the scraper returns to a run without callback
    reconciled,  \* the bulk_create_or_update calls of the current run, in order
    logs,        \* the scraping_logs table, in insertion order
    logsAtStart, \* its length when the current run started
    summary,     \* the dictionary returned by the last run
    sessions,    \* the storage sessions: the run's own, the open ones, the used ones
    \* ---- the rate limiter around _make_request
    clock,       \* seconds since the module was loaded
    last_reset,  \* start of the limiter's current window
    num_calls,   \* calls the limiter counted in that window
    rlPc,        \* "idle" | "blocked" | "calling"
    rlAttempt,   \* the loop variable of the call in progress
    postTimes,   \* the times of the HTTP attempts made so far, in order
    \* ---- the query API
    listing,     \* the answer of the last GET /api/prices
    \* ---- bulk_create_or_update calls of runs that overlap on the storage
    overlap,     \* per run: where its call stands and what it has counted
    \* ---- clean_duplicates
    cleaned,     \* what the last clean_duplicates call read and returned
    \* ---- the scheduler
    sched        \* where the main loop stands and what its runs returned

dedupVars == <<rows, rowsBefore, callNo, lastOp, lastArg, lastRes, prevOp, prevArg, prevRes>>
reqVars == <<reqPc, attempt, posts, sleeps, outcomes, reqResult>>
pgVars == <<pgPc, limit, max_pages, has_callback, current_page, total_count, total_pages,
            all_records, requested, responses, delivered, pgReturn, pgRaised>>
syncVars == <<syncPc, runNo, days_back, immediate_save, total_records, total_new_count,
              total_updated_count, fetched, reconciled, logs, logsAtStart, summary,
              sessions>>
rlVars == <<clock, last_reset, num_calls, rlPc, rlAttempt, postTimes>>
callVars == <<rowsBefore, callNo, lastOp, lastArg, lastRes, prevOp, prevArg, prevRes>>
auxVars == <<overlap, cleaned, sched>>
vars == <<rows, rowsBefore, callNo, lastOp, lastArg, lastRes, prevOp, prevArg, prevRes,
          reqPc, attempt, posts, sleeps, outcomes, reqResult,
          pgPc, limit, max_pages, has_callback, current_page, total_count, total_pages,
          all_records, requested, responses, delivered, pgReturn, pgRaised,
          syncPc, runNo, days_back, immediate_save, total_records, total_new_count,
          total_updated_count, fetched, reconciled, logs, logsAtStart, summary,
          sessions, clock, last_reset, num_calls, rlPc, rlAttempt, postTimes, listing,
          overlap, cleaned, sched>>

(***************************************************************************)
(* Bounds                                                                  *)
(***************************************************************************)
MaxBatch == 2      \* records in one batch
MaxCalls == 2      \* calls made on the storage
MaxLimit == 2      \* page size passed to scrape_all_pages
MaxPagesCap == 3   \* max_pages passed to scrape_all_pages
MaxTotal == 5      \* total count reported by the source
MaxPosts == 11     \* HTTP attempts followed through the rate limiter
MaxClock == 60     \* seconds of the clock followed
MaxRows == 3       \* rows in the table the price listing is run on
MaxSeed == 2       \* records reconciled into the storage before the call under study
MaxRuns == 1       \* sync_data runs on one storage
MaxFetches == 4    \* page fetches of one walk
MaxSchedRuns == 4  \* runs of the scheduler whose outcomes are recorded
MaxPage == 2       \* records in the page each of two overlapping runs reconciles

(***************************************************************************)
(* Python / SQL value helpers                                              *)
(***************************************************************************)
None == "<None>"
Absent == "<absent>"
Err == "<error>"

\* the `id` of a record that carries no upstream id (upstream ids are positive)
NoId == 0

\* dict.get(k): None when the key is missing
Get(d, k) == IF d[k] = Absent THEN None ELSE d[k]

\* truth value of a str-or-None
Truthy(v) == v # None /\ v # Absent /\ v # ""

\* f-string rendering of a str-or-None
PyStr(v) == IF v = None THEN "None" ELSE v

\* `v or ''`
OrEmpty(v) == IF Truthy(v) THEN v ELSE ""

\* float(text), as the repr of the resulting float; Err is ValueError/TypeError
ParseFloat(s) ==
    CASE s \in {"4.0", "4.5", "5.0", "5.5", "6.0", "6.5"} -> s
      [] s = "4.50" -> "4.5"
      [] s = "4" -> "4.0"
      [] OTHER -> Err

\* datetime.strptime(text, '%Y-%m-%d %H:%M:%S'), as the canonical rendering
ParseDate(s) ==
    CASE s \in {"2024-01-15 10:00:00", "2024-01-16 10:00:00"} -> s
      [] s = "2024-1-15 10:00:00" -> "2024-01-15 10:00:00"
      [] OTHER -> Err

\* datetime.strftime('%Y-%m-%d %H:%M:%S') of a stored datetime
StrfTime(dt) == dt

\* SQL `column == :param` as SQLAlchemy renders it: IS NULL for a None
\* parameter, otherwise an equality that NULL never satisfies; a REAL column
\* compares numerically with a text parameter.
SqlEq(col, param) ==
    IF param = None THEN col = None ELSE col # None /\ col = param

SqlEqFloat(col, param) ==
    IF param = None THEN col = None ELSE col # None /\ col = ParseFloat(param)

Max(S) == CHOOSE x \in S : \A y \in S : y <= x
Min(S) == CHOOSE x \in S : \A y \in S : x <= y


(***************************************************************************)
(* The price_data table (models.py) and PriceDataCRUD (crud.py)            *)
(***************************************************************************)

\* the 13 business columns of uq_all_business_fields
BusinessColumns ==
    {"prod_name", "prod_catid", "prod_cat", "prod_pcatid", "prod_pcat",
     "low_price", "high_price", "avg_price", "place", "spec_info", "unit_info",
     "pub_date", "status"}

\* the key of a record as bulk_create_or_update / exists_batch_by_unique_key
\* build it: place and specInfo normalised with `or ''`, every other field
\* rendered as it came, the date as the incoming text
UniqueKeyOfRecord(record) ==
    PyStr(Get(record, "prodName")) \o "|" \o PyStr(Get(record, "prodCatid")) \o "|" \o
    PyStr(Get(record, "prodCat")) \o "|" \o PyStr(Get(record, "prodPcatid")) \o "|" \o
    PyStr(Get(record, "prodPcat")) \o "|" \o PyStr(Get(record, "lowPrice")) \o "|" \o
    PyStr(Get(record, "highPrice")) \o "|" \o PyStr(Get(record, "avgPrice")) \o "|" \o
    OrEmpty(Get(record, "place")) \o "|" \o OrEmpty(Get(record, "specInfo")) \o "|" \o
    PyStr(Get(record, "unitInfo")) \o "|" \o Get(record, "pubDate") \o "|" \o
    PyStr(Get(record, "status"))

\* the key of a stored row as exists_batch_by_unique_key builds it: every
\* column rendered from its stored value (floats by repr, NULL as "None")
UniqueKeyOfRow(row) ==
    PyStr(row.prod_name) \o "|" \o PyStr(row.prod_catid) \o "|" \o
    PyStr(row.prod_cat) \o "|" \o PyStr(row.prod_pcatid) \o "|" \o
    PyStr(row.prod_pcat) \o "|" \o PyStr(row.low_price) \o "|" \o
    PyStr(row.high_price) \o "|" \o PyStr(row.avg_price) \o "|" \o
    PyStr(row.place) \o "|" \o PyStr(row.spec_info) \o "|" \o
    PyStr(row.unit_info) \o "|" \o
    (IF row.pub_date # None THEN StrfTime(row.pub_date) ELSE "") \o "|" \o
    PyStr(row.status)

\* a skip rule that looks at the product name only
Keyed_NameOnly(record) == Truthy(Get(record, "prodName"))

\* `prod_name and pub_date`: the record takes part in deduplication
Keyed(record) == Truthy(Get(record, "prodName")) /\ Truthy(Get(record, "pubDate"))

\* the and_(...) filter over the 13 columns, pub_date compared as pub_date_obj
MatchesRecord(row, record, pub_date_obj) ==
    /\ SqlEq(row.prod_name, Get(record, "prodName"))
    /\ SqlEq(row.prod_catid, Get(record, "prodCatid"))
    /\ SqlEq(row.prod_cat, Get(record, "prodCat"))
    /\ SqlEq(row.prod_pcatid, Get(record, "prodPcatid"))
    /\ SqlEq(row.prod_pcat, Get(record, "prodPcat"))
    /\ SqlEqFloat(row.low_price, Get(record, "lowPrice"))
    /\ SqlEqFloat(row.high_price, Get(record, "highPrice"))
    /\ SqlEqFloat(row.avg_price, Get(record, "avgPrice"))
    /\ SqlEq(row.place, OrEmpty(Get(record, "place")))
    /\ SqlEq(row.spec_info, OrEmpty(Get(record, "specInfo")))
    /\ SqlEq(row.unit_info, Get(record, "unitInfo"))
    /\ SqlEq(row.pub_date, pub_date_obj)
    /\ SqlEq(row.status, Get(record, "status"))

\* query(...).first(): rows come back in rowid order
First(S) == CHOOSE r \in S : r.id = Min({x.id : x \in S})

\* the result of query(...).first() on the matching rows
FirstOrNone(found) ==
    IF found = {} THEN [raised |-> FALSE, found |-> FALSE, id |-> 0]
    ELSE [raised |-> FALSE, found |-> TRUE, id |-> First(found).id]

\* PriceDataCRUD.exists_by_unique_key: [raised, found, id]; found = FALSE is
\* the None returned when no row matches, id the id of the returned row
exists_by_unique_key(table, record_data) ==
    IF Get(record_data, "pubDate") = None
    THEN FirstOrNone({r \in table : MatchesRecord(r, record_data, None)})
    ELSE IF ParseDate(Get(record_data, "pubDate")) = Err
    THEN [raised |-> TRUE, found |-> FALSE, id |-> 0]
    ELSE FirstOrNone({r \in table :
                        MatchesRecord(r, record_data, ParseDate(Get(record_data, "pubDate")))})

\* the result mapping of exists_batch_by_unique_key: UniqueKeyOfRow -> row
\* over the rows the query returned (a later row replaces an earlier one
\* with the same key)
KeyMapping(found) ==
    [k \in {UniqueKeyOfRow(r) : r \in found} |->
        CHOOSE r \in found : /\ UniqueKeyOfRow(r) = k
                             /\ \A q \in found : UniqueKeyOfRow(q) = k => q.id <= r.id]

\* PriceDataCRUD.exists_batch_by_unique_key: the rows matched by the OR of the
\* keyed records' filters; strptime raises on a keyed record's bad timestamp
exists_batch_by_unique_key(table, records) ==
    IF \E i \in 1..Len(records) :
          Keyed(records[i]) /\ ParseDate(Get(records[i], "pubDate")) = Err
    THEN [raised |-> TRUE, result |-> << >>]
    ELSE [raised |-> FALSE,
          result |-> KeyMapping({r \in table : \E i \in 1..Len(records) :
                        /\ Keyed(records[i])
                        /\ MatchesRecord(r, records[i], ParseDate(Get(records[i], "pubDate")))})]

\* two rows collide on uq_all_business_fields: equal on the 13 columns, none
\* of them NULL (NULLs are distinct in a UNIQUE constraint)
UniqueConflict(a, b) ==
    \A c \in BusinessColumns : a[c] # None /\ a[c] = b[c]

\* the INSERT/UPDATE is rejected by the table's constraints
ViolatesConstraints(table, row) ==
    \/ row.prod_name = None
    \/ \E r \in table : r.id = row.id
    \/ \E r \in table : UniqueConflict(r, row)

\* the id an INTEGER PRIMARY KEY gets when none is supplied
NewId(table) == IF table = {} THEN 1 ELSE Max({r.id : r \in table}) + 1

\* the price value create() stores: float(x) when the field is truthy
StoredPrice(v) == IF Truthy(v) THEN ParseFloat(v) ELSE None

\* the pub_date create() stores
StoredDate(v) == IF Truthy(v) THEN ParseDate(v) ELSE None

\* db_data: the row create() builds from the record
ToRow(table, price_data) ==
    [id |-> IF price_data.id = NoId THEN NewId(table) ELSE price_data.id,
     prod_name |-> Get(price_data, "prodName"),
     prod_catid |-> Get(price_data, "prodCatid"),
     prod_cat |-> Get(price_data, "prodCat"),
     prod_pcatid |-> Get(price_data, "prodPcatid"),
     prod_pcat |-> Get(price_data, "prodPcat"),
     low_price |-> StoredPrice(Get(price_data, "lowPrice")),
     high_price |-> StoredPrice(Get(price_data, "highPrice")),
     avg_price |-> StoredPrice(Get(price_data, "avgPrice")),
     place |-> Get(price_data, "place"),
     spec_info |-> Get(price_data, "specInfo"),
     unit_info |-> Get(price_data, "unitInfo"),
     pub_date |-> StoredDate(Get(price_data, "pubDate")),
     status |-> Get(price_data, "status")]

\* the body of create() once the conversions and the existence check are done
CreateRow(table, price_data, db_obj, existing) ==
    IF Err \in {db_obj.low_price, db_obj.high_price, db_obj.avg_price, db_obj.pub_date}
    THEN [table |-> table, raised |-> TRUE, id |-> 0]
    ELSE IF Keyed(price_data) /\ existing.raised
    THEN [table |-> table, raised |-> TRUE, id |-> 0]
    ELSE IF Keyed(price_data) /\ existing.found
    THEN [table |-> table, raised |-> FALSE, id |-> existing.id]
    ELSE IF ViolatesConstraints(table, db_obj)
    THEN [table |-> table, raised |-> TRUE, id |-> 0]
    ELSE [table |-> table \cup {db_obj}, raised |-> FALSE, id |-> db_obj.id]

\* PriceDataCRUD.create: [table, raised, id] - id of the returned row
create(table, price_data) ==
    CreateRow(table, price_data, ToRow(table, price_data),
              exists_by_unique_key(table, price_data))

\* the setattr loop of update(): only the keys that name a column (directly
\* or through field_mapping) are written - prodName, prodPcatid, pubDate, the
\* three prices (through float), id, place and status
SetAttrs(db_obj, update_data) ==
    [db_obj EXCEPT
       !.id = IF update_data.id = NoId THEN @ ELSE update_data.id,
       !.prod_name = IF update_data.prodName = Absent THEN @ ELSE update_data.prodName,
       !.prod_pcatid = IF update_data.prodPcatid = Absent THEN @ ELSE update_data.prodPcatid,
       !.pub_date = IF update_data.pubDate = Absent THEN @
                    ELSE IF update_data.pubDate = None THEN None
                    ELSE ParseDate(update_data.pubDate),
       !.low_price = IF update_data.lowPrice = Absent THEN @ ELSE ParseFloat(update_data.lowPrice),
       !.high_price = IF update_data.highPrice = Absent THEN @ ELSE ParseFloat(update_data.highPrice),
       !.avg_price = IF update_data.avgPrice = Absent THEN @ ELSE ParseFloat(update_data.avgPrice),
       !.place = IF update_data.place = Absent THEN @ ELSE update_data.place,
       !.status = IF update_data.status = Absent THEN @ ELSE update_data.status]

\* the commit of update(): db_obj is replaced by new_obj unless a conversion
\* raised or the table's constraints reject the write
UpdateRow(table, db_obj, new_obj) ==
    IF Err \in {new_obj.low_price, new_obj.high_price, new_obj.avg_price, new_obj.pub_date}
    THEN [table |-> table, raised |-> TRUE, id |-> db_obj.id]
    ELSE IF ViolatesConstraints(table \ {db_obj}, new_obj)
    THEN [table |-> table, raised |-> TRUE, id |-> db_obj.id]
    ELSE [table |-> (table \ {db_obj}) \cup {new_obj}, raised |-> FALSE, id |-> new_obj.id]

\* the row with the given id
RowById(table, record_id) == CHOOSE r \in table : r.id = record_id

\* PriceDataCRUD.update: [table, raised, id] - id is the row's id afterwards;
\* an id that names no row returns None without raising
update(table, record_id, update_data) ==
    IF \A r \in table : r.id # record_id
    THEN [table |-> table, raised |-> FALSE, id |-> record_id]
    ELSE UpdateRow(table, RowById(table, record_id),
                   SetAttrs(RowById(table, record_id), update_data))

(***************************************************************************)
(* bulk_create_or_update (crud.py)                                         *)
(***************************************************************************)

\* the loop state after PriceDataCRUD.update returned u: the update counts
\* unless it raised; remember says whether processed_in_batch is written
AfterUpdate(st, u, unique_key, remember) ==
    IF u.raised THEN st
    ELSE [st EXCEPT !.table = u.table, !.updated = @ + 1,
                    !.processed = IF remember THEN (unique_key :> u.id) @@ @ ELSE @]

\* a failed create counted as a creation
AfterCreate_CountsFailure(st, c, unique_key) ==
    IF c.raised THEN [st EXCEPT !.created = @ + 1]
    ELSE [st EXCEPT !.table = c.table, !.created = @ + 1,
                    !.processed = (unique_key :> c.id) @@ @]

\* the loop state after PriceDataCRUD.create returned c
AfterCreate(st, c, unique_key) ==
    IF c.raised THEN st
    ELSE [st EXCEPT !.table = c.table, !.created = @ + 1,
                    !.processed = (unique_key :> c.id) @@ @]

\* the three branches of the loop body for a keyed record
Resolve(st, existing, record, unique_key) ==
    IF unique_key \in DOMAIN st.processed
    THEN AfterUpdate(st, update(st.table, st.processed[unique_key], record), unique_key, FALSE)
    ELSE IF unique_key \in DOMAIN existing
    THEN AfterUpdate(st, update(st.table, existing[unique_key].id, record), unique_key, TRUE)
    ELSE AfterCreate(st, create(st.table, record), unique_key)

\* one iteration of `for record in records`, on the loop state
\* st = [table, created, updated, processed]; processed is the
\* processed_in_batch dict, existing the mapping returned by
\* exists_batch_by_unique_key before the loop
ProcessRecord(st, existing, record) ==
    IF ~Keyed(record) THEN st
    ELSE Resolve(st, existing, record, UniqueKeyOfRecord(record))

RECURSIVE ProcessRecords(_, _, _, _)
ProcessRecords(st, existing, records, i) ==
    IF i > Len(records) THEN st
    ELSE ProcessRecords(ProcessRecord(st, existing, records[i]), existing, records, i + 1)

\* `return created_count, updated_count`
Returned(st) ==
    [table |-> st.table, raised |-> FALSE, created |-> st.created, updated |-> st.updated]

\* the try block of bulk_create_or_update once the batch lookup is done
ReconcileWith(table, records, existing_records) ==
    IF existing_records.raised
    THEN [table |-> table, raised |-> TRUE, created |-> 0, updated |-> 0]
    ELSE Returned(ProcessRecords([table |-> table, created |-> 0, updated |-> 0,
                                  processed |-> << >>],
                                 existing_records.result, records, 1))

\* bulk_create_or_update: [table, raised, created, updated]
bulk_create_or_update(table, records) ==
    IF records = << >>
    THEN [table |-> table, raised |-> FALSE, created |-> 0, updated |-> 0]
    ELSE ReconcileWith(table, records, exists_batch_by_unique_key(table, records))

(***************************************************************************)
(* The records submitted to the deduplication engine                       *)
(***************************************************************************)

\* a fully populated record without upstream id
Base ==
    [id |-> NoId, prodName |-> "apple", prodCatid |-> "1", prodCat |-> "fruit",
     prodPcatid |-> "100", prodPcat |-> "farm", lowPrice |-> "4.0",
     highPrice |-> "6.0", avgPrice |-> "5.0", place |-> "BJ", specInfo |-> "red",
     unitInfo |-> "kg", pubDate |-> "2024-01-15 10:00:00", status |-> "1"]

LowVariant == [Base EXCEPT !.lowPrice = "4.5"]

\* the seven single-field variants of Base
SingleFieldVariants ==
    {LowVariant,
     [Base EXCEPT !.highPrice = "6.5"],
     [Base EXCEPT !.avgPrice = "5.5"],
     [Base EXCEPT !.unitInfo = "jin"],
     [Base EXCEPT !.status = "2"],
     [Base EXCEPT !.specInfo = "green"],
     [Base EXCEPT !.place = "SD"]}

\* the records a batch is drawn from
Pool ==
    {Base,
     [Base EXCEPT !.place = None],               \* null place
     [Base EXCEPT !.place = ""],                 \* empty place
     [Base EXCEPT !.id = 7],                     \* carries an upstream id
     [LowVariant EXCEPT !.id = 7],               \* republished with another price
     [Base EXCEPT !.id = 7, !.prodCatid = "2"],  \* same id, other category id
     [Base EXCEPT !.avgPrice = None],            \* null price
     [Base EXCEPT !.lowPrice = "4.50"],          \* price text that is not a repr
     [Base EXCEPT !.prodName = None],            \* lacks the product name
     [Base EXCEPT !.pubDate = None],             \* lacks the publish timestamp
     [Base EXCEPT !.pubDate = "2024/01/15"]}     \* timestamp in another format

Batches == UNION {[1..n -> Pool] : n \in 0..MaxBatch}

(***************************************************************************)
(* Calls on the storage                                                    *)
(***************************************************************************)
NoRes == [raised |-> FALSE, created |-> 0, updated |-> 0, id |-> 0]

InitDedup ==
    /\ rows = {}
    /\ rowsBefore = {}
    /\ callNo = 0
    /\ lastOp = "none"
    /\ lastArg = << >>
    /\ lastRes = NoRes
    /\ prevOp = "none"
    /\ prevArg = << >>
    /\ prevRes = NoRes

Shift ==
    /\ callNo' = callNo + 1
    /\ rowsBefore' = rows
    /\ prevOp' = lastOp
    /\ prevArg' = lastArg
    /\ prevRes' = lastRes

\* a caller runs bulk_create_or_update(db, records)
BulkCreateOrUpdate ==
    /\ callNo < MaxCalls
    /\ \E records \in Batches :
         \E r \in {bulk_create_or_update(rows, records)} :
             /\ rows' = r.table
             /\ lastOp' = "bulk"
             /\ lastArg' = records
             /\ lastRes' = [raised |-> r.raised, created |-> r.created,
                            updated |-> r.updated, id |-> 0]
    /\ Shift

\* the tables an earlier reconcile on an empty storage leaves behind
StoredTables ==
    {bulk_create_or_update({}, records).table :
        records \in UNION {[1..n -> Pool] : n \in 0..MaxSeed}}

\* a storage filled by an earlier reconcile, no call made on it yet
InitBatch ==
    /\ rows \in StoredTables
    /\ rowsBefore = {}
    /\ callNo = 0
    /\ lastOp = "none"
    /\ lastArg = << >>
    /\ lastRes = NoRes
    /\ prevOp = "none"
    /\ prevArg = << >>
    /\ prevRes = NoRes

\* a caller runs bulk_create_or_update(db, records) once on that storage
ReconcileOnce ==
    /\ callNo = 0
    /\ BulkCreateOrUpdate

\* a caller runs PriceDataCRUD.create(db, price_data)
Create ==
    /\ callNo < MaxCalls
    /\ \E price_data \in Pool \cup SingleFieldVariants :
         \E r \in {create(rows, price_data)} :
             /\ rows' = r.table
             /\ lastOp' = "create"
             /\ lastArg' = <<price_data>>
             /\ lastRes' = [raised |-> r.raised, created |-> 0, updated |-> 0, id |-> r.id]
    /\ Shift


(***************************************************************************)
(* XinfadiScraper._make_request (scraper.py): the retry loop               *)
(***************************************************************************)
RETRY_MAX_ATTEMPTS == 5
RETRY_INTERVAL == 10

\* what session.post / raise_for_status / response.json can raise
ExceptionKinds == {"ConnectionError", "Timeout", "HTTPError", "JSONDecodeError", "Exception"}

\* the retried errors if the JSON clause were merged into the first one
Retryable_WithParseError(kind) ==
    kind \in {"ConnectionError", "Timeout", "HTTPError", "JSONDecodeError"}

\* the first except clause: the errors that are retried
Retryable(kind) == kind \in {"ConnectionError", "Timeout", "HTTPError"}

\* is_last_attempt compared against the attempt count instead of the last index
IsLastAttempt_Never(a) == a = RETRY_MAX_ATTEMPTS

\* is_last_attempt
IsLastAttempt(a) == a = RETRY_MAX_ATTEMPTS - 1

\* a delay that grows with the attempt number
RetryDelay_Backoff(a) == RETRY_INTERVAL * (a + 1)

\* the argument of time.sleep between two attempts
RetryDelay(a) == RETRY_INTERVAL

\* a parsed response body: kind "dict" is a JSON object with n records in
\* 'list' and the given 'count', kind "empty" is the body {}; BadCount is a
\* 'count' that is not a number
BadCount == -2
EmptyDict == [kind |-> "empty", n |-> 0, count |-> 0]
Payloads ==
    {EmptyDict} \cup
    [kind : {"dict"}, n : 0..MaxLimit, count : (0..MaxTotal) \cup {BadCount}]

\* the None that _make_request returns on failure
Failure == [kind |-> "None", n |-> 0, count |-> 0]

InitRequest ==
    /\ reqPc = "idle"
    /\ attempt = 0
    /\ posts = 0
    /\ sleeps = << >>
    /\ outcomes = << >>
    /\ reqResult = Failure

\* _make_request is entered: `for attempt in range(RETRY_MAX_ATTEMPTS)`
StartRequest ==
    /\ reqPc \in {"idle", "done"}
    /\ reqPc' = "try"
    /\ attempt' = 0
    /\ posts' = 0
    /\ sleeps' = << >>
    /\ outcomes' = << >>
    /\ reqResult' = Failure

\* the attempt goes through: post, raise_for_status and json() succeed
AttemptReturns ==
    /\ reqPc = "try"
    /\ \E payload \in Payloads :
         /\ reqResult' = payload
         /\ outcomes' = Append(outcomes, [kind |-> "ok", payload |-> payload])
    /\ posts' = posts + 1
    /\ reqPc' = "done"
    /\ UNCHANGED <<attempt, sleeps>>

\* the attempt raises: a retried error leads to the sleep unless it was the
\* last attempt, any other error returns None at once
AttemptRaises ==
    /\ reqPc = "try"
    /\ \E kind \in ExceptionKinds :
         /\ outcomes' = Append(outcomes, [kind |-> kind, payload |-> Failure])
         /\ reqPc' = IF Retryable(kind) /\ ~IsLastAttempt(attempt) THEN "sleep" ELSE "done"
    /\ posts' = posts + 1
    /\ reqResult' = Failure
    /\ UNCHANGED <<attempt, sleeps>>

\* time.sleep(RETRY_INTERVAL), then the next iteration of the loop (or the
\* `return None` after the loop when the range is exhausted)
RetrySleep ==
    /\ reqPc = "sleep"
    /\ sleeps' = Append(sleeps, RetryDelay(attempt))
    /\ attempt' = attempt + 1
    /\ reqPc' = IF attempt + 1 < RETRY_MAX_ATTEMPTS THEN "try" ELSE "done"
    /\ UNCHANGED <<posts, outcomes, reqResult>>


(***************************************************************************)
(* XinfadiScraper.scrape_all_pages (scraper.py): the pagination driver     *)
(***************************************************************************)
NoTotal == -1      \* total_count = None
NoCap == 0         \* max_pages = None

\* what scrape_page can return: whatever _make_request returns
FetchResults == {Failure} \cup Payloads

\* `not result`
IsFailure(result) == result.kind \in {"None", "empty"}

\* the loop going on after a failed fetch
AfterFailure_Continue == "fetch"

\* where the loop goes when the fetch failed: `break`
AfterFailure == "done"

\* (total_count + limit - 1) // limit
CeilDiv(a, b) == (a + b - 1) \div b

\* the last page recognised only when it is empty
IsLastPage_OnlyEmpty(n, lim) == n = 0

\* `len(page_records) < limit`
IsLastPage(n, lim) == n < lim

\* `max_pages and current_page >= max_pages`
CapReached(cap, page) == cap # NoCap /\ page >= cap

\* the records of page p when it holds n of them
PageRecords(p, n) == [i \in 1..n |-> <<p, i>>]

\* the callback invoked for every fetched page, an empty one included
InvokesCallback_Always(cb, n) == cb

\* `if save_callback and page_records`
InvokesCallback(cb, n) == cb /\ n > 0

\* a walk that ends when the callback raises
HandlerFailureEnds_Break(callback_raises) == callback_raises

\* `except Exception as e` around the callback: the error is logged and the
\* loop body goes on, a raising callback does not end the walk
HandlerFailureEnds(callback_raises) == FALSE

\* a buffer that keeps every page, handed to the callback or not
Buffered_Always(buffer, invoked, page_records) == buffer \o page_records

\* all_records after the page: extended in the else branch of
\* `if save_callback and page_records` only
Buffered(buffer, invoked, page_records) ==
    IF invoked THEN buffer ELSE buffer \o page_records

InitPages ==
    /\ pgPc = "idle"
    /\ limit = 1
    /\ max_pages = NoCap
    /\ has_callback = FALSE
    /\ current_page = 1
    /\ total_count = NoTotal
    /\ total_pages = 0
    /\ all_records = << >>
    /\ requested = << >>
    /\ responses = << >>
    /\ delivered = << >>
    /\ pgReturn = << >>
    /\ pgRaised = FALSE

\* scrape_all_pages(limit, max_pages, save_callback) is called
StartScrape ==
    /\ pgPc = "idle"
    /\ \E l \in 1..MaxLimit, m \in {NoCap} \cup (1..MaxPagesCap), cb \in BOOLEAN :
         /\ limit' = l
         /\ max_pages' = m
         /\ has_callback' = cb
    /\ pgPc' = "fetch"
    /\ current_page' = 1
    /\ total_count' = NoTotal
    /\ total_pages' = 0
    /\ all_records' = << >>
    /\ requested' = << >>
    /\ responses' = << >>
    /\ delivered' = << >>
    /\ pgReturn' = << >>
    /\ pgRaised' = FALSE

\* a walk that returns nothing in either mode
ReturnValue_Empty(buffer) == << >>

\* the value returned when the loop is left
ReturnValue(buffer) == IF has_callback THEN << >> ELSE buffer

\* one iteration of `while True` in which scrape_page fails
FetchFails ==
    /\ pgPc = "fetch"
    /\ Len(requested) < MaxFetches
    /\ \E result \in FetchResults :
         /\ IsFailure(result)
         /\ responses' = Append(responses, result)
    /\ requested' = Append(requested, current_page)
    /\ pgPc' = AfterFailure
    /\ pgReturn' = IF AfterFailure = "done" THEN ReturnValue(all_records) ELSE pgReturn
    /\ UNCHANGED <<limit, max_pages, has_callback, current_page, total_count, total_pages,
                   all_records, delivered, pgRaised>>

\* one iteration of `while True` in which scrape_page returns the page
\* `result`: the totals on the first page, the callback or the buffer, the
\* two exits, the increment of the page counter
FetchSucceedsWith(result, callback_raises) ==
    /\ pgPc = "fetch"
    /\ Len(requested) < MaxFetches
    /\   /\ ~IsFailure(result)
         /\ result.n <= limit    \* the source honours the `limit` parameter
         /\ callback_raises => InvokesCallback(has_callback, result.n)
         /\ responses' = Append(responses, result)
         /\ requested' = Append(requested, current_page)
         /\ IF total_count = NoTotal /\ result.count = BadCount
            THEN \* total_count + limit raises TypeError
                 /\ pgRaised' = TRUE
                 /\ pgPc' = "done"
                 /\ UNCHANGED <<total_count, total_pages, all_records, delivered,
                                current_page, pgReturn>>
            ELSE LET pages == CeilDiv(result.count, limit)
                     buffer == Buffered(all_records, InvokesCallback(has_callback, result.n),
                                        PageRecords(current_page, result.n))
                     stop == \/ IsLastPage(result.n, limit)
                             \/ CapReached(max_pages, current_page)
                             \/ HandlerFailureEnds(callback_raises)
                 IN  /\ total_count' = IF total_count = NoTotal THEN result.count ELSE total_count
                     /\ total_pages' = IF total_count # NoTotal THEN total_pages
                                       ELSE IF max_pages # NoCap /\ pages > max_pages
                                            THEN max_pages ELSE pages
                     /\ delivered' = IF InvokesCallback(has_callback, result.n)
                                     THEN Append(delivered, [page |-> current_page,
                                                             records |-> PageRecords(current_page, result.n),
                                                             raised |-> callback_raises,
                                                             fetches |-> Len(requested) + 1])
                                     ELSE delivered
                     /\ all_records' = buffer
                     /\ pgPc' = IF stop THEN "done" ELSE "sleep"
                     /\ current_page' = IF stop THEN current_page ELSE current_page + 1
                     /\ pgReturn' = IF stop THEN ReturnValue(buffer) ELSE pgReturn
                     /\ pgRaised' = FALSE
    /\ UNCHANGED <<limit, max_pages, has_callback>>

\* the same iteration against an arbitrary source and an arbitrary callback
FetchSucceeds ==
    \E result \in FetchResults, callback_raises \in BOOLEAN :
        FetchSucceedsWith(result, callback_raises)

\* time.sleep(1) before the next page is requested
PageSleep ==
    /\ pgPc = "sleep"
    /\ pgPc' = "fetch"
    /\ UNCHANGED <<limit, max_pages, has_callback, current_page, total_count, total_pages,
                   all_records, requested, responses, delivered, pgReturn, pgRaised>>

\* an iteration of `while True` after MaxFetches fetches: the walk goes on
\* as before, its page counter, buffer and history are followed no further
\* (a page cap, if any, has ended the walk by then)
FetchMore ==
    /\ pgPc = "fetch"
    /\ Len(requested) >= MaxFetches
    /\ \E result \in FetchResults :
         /\ result.n <= limit
         /\ pgPc' = IF IsFailure(result) THEN AfterFailure
                    ELSE IF IsLastPage(result.n, limit) \/ CapReached(max_pages, current_page)
                    THEN "done" ELSE "sleep"
         /\ pgReturn' = IF IsFailure(result) /\ AfterFailure # "done" THEN pgReturn
                        ELSE IF IsFailure(result) \/ IsLastPage(result.n, limit)
                                \/ CapReached(max_pages, current_page)
                        THEN ReturnValue(all_records) ELSE pgReturn
    /\ UNCHANGED <<limit, max_pages, has_callback, current_page, total_count, total_pages,
                   all_records, requested, responses, delivered, pgRaised>>

\* the caller takes the result; the scraper is ready for another walk
FinishScrape ==
    /\ pgPc = "done"
    /\ pgPc' = "idle"
    /\ UNCHANGED <<limit, max_pages, has_callback, current_page, total_count, total_pages,
                   all_records, requested, responses, delivered, pgReturn, pgRaised>>

(***************************************************************************)
(* The orchestrator: DataManager.sync_data                                 *)
(***************************************************************************)
\* days_back = None
NoDays == 0

\* the values of days_back: none, or a window of one day
DaysBack == {NoDays, 1}

\* the pages the upstream serves to a run: record lists of up to two records
SyncPages ==
    { << >>, <<Base>>, <<LowVariant>>, <<[Base EXCEPT !.place = None]>>,
      <<Base, LowVariant>>, <<LowVariant, Base>>, <<Base, Base>>,
      <<Base, [Base EXCEPT !.pubDate = "2024/01/15"]>> }

\* the `count` the upstream reports with a page: a total or something that
\* is no number on the first page, the same total on the later ones
SyncCounts(known) == IF known = NoTotal THEN {MaxTotal, BadCount} ELSE {known}

\* a row of scraping_logs
LogEntry(status, n, new, updated, error_message) ==
    [status |-> status, total_records |-> n, new_records |-> new,
     updated_records |-> updated, error_message |-> error_message]

\* the dictionary sync_data returns
Summary(status, message, n, new, updated) ==
    [status |-> status, message |-> message, total_records |-> n,
     new_records |-> new, updated_records |-> updated]

NoSummary == Summary("none", None, 0, 0, 0)

\* no session was ever acquired
NoSessions == [current |-> 0, acquired |-> 0, open |-> {}, used |-> {}]

\* `db_gen = get_db(); db = next(db_gen)`: the run's session is a new one,
\* SessionLocal() of get_db, named here after the run
Acquire(ss, run) ==
    [current |-> run, acquired |-> 1, open |-> ss.open \cup {run}, used |-> {}]

\* a storage operation of the run (a reconcile, a create_log) on `db`
UseSession(ss, used) == IF used THEN [ss EXCEPT !.used = @ \cup {ss.current}] ELSE ss

\* a run that leaves its session open on the no-data return
Release_NotOnWarning(ss, status) ==
    IF status = "warning" THEN ss ELSE [ss EXCEPT !.open = @ \ {ss.current}]

\* `finally: db.close()`, on every way out of the try block
Release(ss, status) == [ss EXCEPT !.open = @ \ {ss.current}]

\* one bulk_create_or_update call as the run saw it
BulkCall(records, r) ==
    [n |-> Len(records), records |-> records, raised |-> r.raised,
     created |-> r.created, updated |-> r.updated, table |-> r.table]

\* a reconcile that was not made
NoCall == [table |-> rows, raised |-> FALSE, created |-> 0, updated |-> 0]

InitSync ==
    /\ syncPc = "idle"
    /\ runNo = 0
    /\ days_back = NoDays
    /\ immediate_save = TRUE
    /\ total_records = 0
    /\ total_new_count = 0
    /\ total_updated_count = 0
    /\ fetched = << >>
    /\ reconciled = << >>
    /\ logs = << >>
    /\ logsAtStart = 0
    /\ summary = NoSummary
    /\ sessions = NoSessions

\* what the run asks of the scraper: scrape_by_date_range with a window,
\* scrape_all (which XinfadiScraper does not define) without one
ScraperEntry(d) == IF d # NoDays THEN "scrape_by_date_range" ELSE "scrape_all"

\* the methods XinfadiScraper defines that walk the pages
ScraperMethods == {"scrape_all_pages", "scrape_by_date_range", "scrape_by_product",
                   "scrape_latest"}

\* sync_data(limit, max_pages, days_back, immediate_save) up to the first fetch
StartSync ==
    /\ syncPc = "idle" /\ pgPc = "idle"
    /\ runNo < MaxRuns
    /\ \E l \in 1..MaxLimit, m \in {NoCap} \cup (1..MaxPagesCap), d \in DaysBack,
          imm \in BOOLEAN :
         /\ limit' = l
         /\ max_pages' = m
         /\ days_back' = d
         /\ immediate_save' = imm
         /\ has_callback' = imm
         /\ IF ScraperEntry(d) \in ScraperMethods
            THEN pgPc' = "fetch" /\ pgRaised' = FALSE
            ELSE pgPc' = "done" /\ pgRaised' = TRUE   \* AttributeError
    /\ syncPc' = "scraping"
    /\ runNo' = runNo + 1
    /\ total_records' = 0
    /\ total_new_count' = 0
    /\ total_updated_count' = 0
    /\ fetched' = << >>
    /\ reconciled' = << >>
    /\ logsAtStart' = Len(logs)
    /\ summary' = NoSummary
    /\ current_page' = 1
    /\ total_count' = NoTotal
    /\ total_pages' = 0
    /\ all_records' = << >>
    /\ requested' = << >>
    /\ responses' = << >>
    /\ delivered' = << >>
    /\ pgReturn' = << >>
    /\ sessions' = Acquire(sessions, runNo + 1)
    /\ UNCHANGED <<logs, dedupVars>>

\* a failed fetch that makes the run forget what it ingested so far
SyncFetchFails_DropsTotals ==
    /\ syncPc = "scraping"
    /\ FetchFails
    /\ total_records' = 0
    /\ total_new_count' = 0
    /\ total_updated_count' = 0
    /\ fetched' = << >>
    /\ UNCHANGED <<syncPc, runNo, days_back, immediate_save, reconciled, logs, logsAtStart,
                   summary, sessions, dedupVars>>

\* a loop iteration of the run's walk in which the fetch fails
SyncFetchFails ==
    /\ syncPc = "scraping"
    /\ FetchFails
    /\ UNCHANGED <<syncVars, dedupVars>>

\* the run's walk sleeps between two pages
SyncPageSleep ==
    /\ syncPc = "scraping"
    /\ PageSleep
    /\ UNCHANGED <<syncVars, dedupVars>>

\* a loop iteration of the run's walk in which the upstream serves `page`:
\* with immediate_save the page goes through save_callback, otherwise it is
\* kept for the reconcile at the end
SyncFetchSucceeds ==
    /\ syncPc = "scraping"
    /\ pgPc = "fetch"
    /\ \E page \in {pg \in SyncPages : Len(pg) <= limit}, count \in SyncCounts(total_count) :
         \E invoked \in {~(total_count = NoTotal /\ count = BadCount)
                          /\ InvokesCallback(has_callback, Len(page))} :
           \E r \in {IF invoked THEN bulk_create_or_update(rows, page) ELSE NoCall} :
             /\ FetchSucceedsWith([kind |-> "dict", n |-> Len(page), count |-> count],
                                  invoked /\ r.raised)
             /\ rows' = r.table
             /\ reconciled' = IF invoked THEN Append(reconciled, BulkCall(page, r))
                               ELSE reconciled
             /\ IF invoked /\ ~r.raised
                THEN /\ total_records' = total_records + Len(page)
                     /\ total_new_count' = total_new_count + r.created
                     /\ total_updated_count' = total_updated_count + r.updated
                ELSE UNCHANGED <<total_records, total_new_count, total_updated_count>>
             /\ fetched' = IF has_callback \/ (total_count = NoTotal /\ count = BadCount)
                            THEN fetched ELSE fetched \o page
             /\ sessions' = UseSession(sessions, invoked)
    /\ UNCHANGED <<syncPc, runNo, days_back, immediate_save, logs, logsAtStart, summary>>
    /\ UNCHANGED <<rowsBefore, callNo, lastOp, lastArg, lastRes, prevOp, prevArg, prevRes>>

\* the exception leaving sync_data instead of being turned into a summary
ErrorReturn_Propagates(table, calls, message, errlog_fails) ==
    [table |-> table, calls |-> calls, logs |-> logs,
     summary |-> Summary("raised", message, 0, 0, 0)]

\* the `except Exception` branch: the error entry, best effort, and the
\* error summary
ErrorReturn(table, calls, message, errlog_fails) ==
    [table |-> table, calls |-> calls,
     logs |-> IF errlog_fails THEN logs
              ELSE Append(logs, LogEntry("error", 0, 0, 0, message)),
     summary |-> Summary("error", message, 0, 0, 0)]

\* a no-data return that writes an audit entry with status "warning"
WarningReturn_Audited ==
    [table |-> rows, calls |-> reconciled,
     logs |-> Append(logs, LogEntry("warning", 0, 0, 0, None)),
     summary |-> Summary("warning", "no data", 0, 0, 0)]

\* the two early returns for a run that got no data
WarningReturn ==
    [table |-> rows, calls |-> reconciled, logs |-> logs,
     summary |-> Summary("warning", "no data", 0, 0, 0)]

\* the success summary returned without any audit entry
SuccessReturn_NoAudit(table, calls, n, new, updated, log_fails, errlog_fails) ==
    [table |-> table, calls |-> calls, logs |-> logs,
     summary |-> Summary("success", "done", n, new, updated)]

\* create_log(status='success') and the success summary; a failing
\* create_log raises into the `except Exception` branch
SuccessReturn(table, calls, n, new, updated, log_fails, errlog_fails) ==
    IF log_fails THEN ErrorReturn(table, calls, "create_log failed", errlog_fails)
    ELSE [table |-> table, calls |-> calls,
          logs |-> Append(logs, LogEntry("success", n, new, updated, None)),
          summary |-> Summary("success", "done", n, new, updated)]

\* the run without immediate_save reconciles everything it fetched at once
ReconcileAll(r, log_fails, errlog_fails) ==
    IF r.raised
    THEN ErrorReturn(r.table, Append(reconciled, BulkCall(fetched, r)),
                     "bulk_create_or_update failed", errlog_fails)
    ELSE SuccessReturn(r.table, Append(reconciled, BulkCall(fetched, r)),
                       Len(fetched), r.created, r.updated, log_fails, errlog_fails)

\* sync_data from the return of the scraper to its own return
Complete(log_fails, errlog_fails) ==
    IF pgRaised
    THEN ErrorReturn(rows, reconciled,
                     IF days_back = NoDays THEN "no attribute scrape_all"
                     ELSE "unsupported operand", errlog_fails)
    ELSE IF immediate_save
    THEN IF total_records = 0 THEN WarningReturn
         ELSE SuccessReturn(rows, reconciled, total_records, total_new_count,
                            total_updated_count, log_fails, errlog_fails)
    ELSE IF fetched = << >> THEN WarningReturn
         ELSE ReconcileAll(bulk_create_or_update(rows, fetched), log_fails, errlog_fails)

\* the scraper has returned or raised: the run ends
SyncFinish ==
    /\ syncPc = "scraping"
    /\ pgPc = "done"
    /\ \E log_fails \in BOOLEAN, errlog_fails \in BOOLEAN :
         \E c \in {Complete(log_fails, errlog_fails)} :
             /\ rows' = c.table
             /\ reconciled' = c.calls
             /\ logs' = c.logs
             /\ summary' = c.summary
             /\ sessions' = Release(UseSession(sessions, c.summary.status # "warning"),
                                    c.summary.status)
    /\ syncPc' = "idle"
    /\ pgPc' = "idle"
    /\ UNCHANGED <<runNo, days_back, immediate_save, total_records, total_new_count,
                   total_updated_count, fetched, logsAtStart>>
    /\ UNCHANGED <<limit, max_pages, has_callback, current_page, total_count, total_pages,
                   all_records, requested, responses, delivered, pgReturn, pgRaised>>
    /\ UNCHANGED <<rowsBefore, callNo, lastOp, lastArg, lastRes, prevOp, prevArg, prevRes>>

(***************************************************************************)
(* The rate limiter: @sleep_and_retry @limits around _make_request         *)
(***************************************************************************)
RATE_LIMIT_CALLS == 10
RATE_LIMIT_PERIOD == 60

InitRate ==
    /\ clock = 0
    /\ last_reset = 0
    /\ num_calls = 0
    /\ rlPc = "idle"
    /\ rlAttempt = 0
    /\ postTimes = << >>

\* what is left of the limiter's window
PeriodRemaining == RATE_LIMIT_PERIOD - (clock - last_reset)

\* the limiter's counter once the call at hand is counted: a window that
\* has run out is restarted first
Counted == IF PeriodRemaining <= 0 THEN 1 ELSE num_calls + 1

\* `num_calls > clamped_calls` not being the case
Admits(n) == n <= RATE_LIMIT_CALLS

\* the decorated _make_request is entered, by a new call or by the retry of
\* sleep_and_retry after its sleep: the limiter counts the call and lets it
\* through, or raises and the wrapper sleeps for what is left of the window
EnterLimiter ==
    /\ rlPc \in {"idle", "blocked"}
    /\ Len(postTimes) < MaxPosts
    /\ num_calls' = Counted
    /\ last_reset' = IF PeriodRemaining <= 0 THEN clock ELSE last_reset
    /\ IF Admits(Counted)
       THEN /\ rlPc' = "calling"
            /\ clock' = clock
       ELSE /\ clock + PeriodRemaining <= MaxClock
            /\ rlPc' = "blocked"
            /\ clock' = clock + PeriodRemaining
    /\ rlAttempt' = 0
    /\ UNCHANGED postTimes

\* one iteration of the retry loop inside the admitted call: the HTTP attempt
\* and, after a retried error, the sleep before the next one
Post ==
    /\ rlPc = "calling"
    /\ Len(postTimes) < MaxPosts
    /\ postTimes' = Append(postTimes, clock)
    /\ \E kind \in ExceptionKinds \cup {"ok"} :
         IF kind # "ok" /\ Retryable(kind) /\ ~IsLastAttempt(rlAttempt)
         THEN /\ clock + RetryDelay(rlAttempt) <= MaxClock
              /\ clock' = clock + RetryDelay(rlAttempt)
              /\ rlAttempt' = rlAttempt + 1
              /\ rlPc' = "calling"
         ELSE /\ clock' = clock
              /\ rlAttempt' = rlAttempt
              /\ rlPc' = "idle"
    /\ UNCHANGED <<last_reset, num_calls>>

(***************************************************************************)
(* The query API: GET /api/prices and get_price_trend_data                 *)
(***************************************************************************)

\* a stored datetime as hours since 2024-01-01 00:00:00
Hours(dt) ==
    CASE dt = "2024-01-01 10:00:00" -> 10
      [] dt = "2024-01-24 10:00:00" -> 562
      [] dt = "2024-01-24 12:00:00" -> 564
      [] dt = "2024-01-30 10:00:00" -> 706
      [] dt = "2024-01-31 10:00:00" -> 730

\* a stored float, in hundredths
Hundredths(f) ==
    CASE f = "0.0" -> 0
      [] f = "3.0" -> 300
      [] f = "8.0" -> 800
      [] f = "10.0" -> 1000

\* round(a / b, 0) for b > 0: to the nearest integer, a tie to the even one
RoundDiv(a, b) ==
    IF (2 * a) % (2 * b) = b
    THEN IF (a \div b) % 2 = 0 THEN a \div b ELSE (a \div b) + 1
    ELSE (2 * a + b) \div (2 * b)

\* a stored row of the given product, average price and publish time
PriceRow(id, name, avg, date) ==
    [id |-> id, prod_name |-> name, prod_catid |-> "1", prod_cat |-> "fruit",
     prod_pcatid |-> "100", prod_pcat |-> "farm", low_price |-> avg,
     high_price |-> avg, avg_price |-> avg, place |-> "BJ", spec_info |-> "red",
     unit_info |-> "kg", pub_date |-> date, status |-> "1"]

\* the rows the listed tables are made of
PricePool ==
    {PriceRow(1, "apple", "10.0", "2024-01-31 10:00:00"),
     PriceRow(2, "apple", "8.0", "2024-01-01 10:00:00"),   \* 30 days earlier
     PriceRow(3, "apple", "3.0", "2024-01-24 10:00:00"),   \* 7 days earlier
     PriceRow(4, "apple", "8.0", "2024-01-24 12:00:00"),   \* 7 days less 2 hours
     PriceRow(5, "apple", None, "2024-01-30 10:00:00"),    \* no average price
     PriceRow(6, "apple", "0.0", "2024-01-30 10:00:00"),   \* average price 0
     PriceRow(7, "pear", "8.0", "2024-01-30 10:00:00"),    \* another product
     PriceRow(8, "apple", "10.0", None),                   \* no publish time
     PriceRow(9, "apple", "8.0", "2024-01-30 10:00:00"),   \* same time as row 6
     PriceRow(10, "apple", "0.0", "2024-01-31 10:00:00")}

PriceTables == {t \in SUBSET PricePool : Cardinality(t) <= MaxRows}

\* time_periods
TimePeriods == {1, 3, 7, 14, 30}

\* no row: the None of query(...).first()
NoRow == [id |-> NoId]

\* the rows the historical query can return first: same product, an average
\* price, published at or before target_date, the latest of them (rows with
\* the same publish time come in no specified order)
HistoricalPrice(table, prod_name, target_date) ==
    LET matching == {r \in table : /\ r.prod_name = prod_name
                                   /\ r.pub_date # None
                                   /\ Hours(r.pub_date) <= target_date
                                   /\ r.avg_price # None}
    IN  IF matching = {} THEN {NoRow}
        ELSE {r \in matching : \A q \in matching : Hours(q.pub_date) <= Hours(r.pub_date)}

\* `historical_price and historical_price.avg_price`
HasPrice(historical_price) ==
    historical_price # NoRow /\ Hundredths(historical_price.avg_price) # 0

\* a value of trend_data: a number, in hundredths, or None
Rounded(n) == [null |-> FALSE, hundredths |-> n]
NullValue == [null |-> TRUE, hundredths |-> 0]

\* the two values written for one period: <<change, percent>>
Changes(current_avg_price, historical_price) ==
    IF HasPrice(historical_price)
    THEN IF Hundredths(historical_price.avg_price) # 0
         THEN <<Rounded(current_avg_price - Hundredths(historical_price.avg_price)),
                Rounded(RoundDiv((current_avg_price - Hundredths(historical_price.avg_price)) * 10000,
                                 Hundredths(historical_price.avg_price)))>>
         ELSE <<Rounded(current_avg_price - Hundredths(historical_price.avg_price)), Rounded(0)>>
    ELSE <<NullValue, NullValue>>

\* trend_data once the five queries returned h1, h3, h7, h14, h30
TrendData(c, h1, h3, h7, h14, h30) ==
    [change_1d |-> Changes(c, h1)[1], change_1d_percent |-> Changes(c, h1)[2],
     change_3d |-> Changes(c, h3)[1], change_3d_percent |-> Changes(c, h3)[2],
     change_7d |-> Changes(c, h7)[1], change_7d_percent |-> Changes(c, h7)[2],
     change_14d |-> Changes(c, h14)[1], change_14d_percent |-> Changes(c, h14)[2],
     change_30d |-> Changes(c, h30)[1], change_30d_percent |-> Changes(c, h30)[2]]

\* the {} returned for a record without average price
NoTrend == [raised |-> FALSE, complete |-> FALSE, data |-> TrendData(0, NoRow, NoRow, NoRow, NoRow, NoRow)]

\* `not current_price.avg_price`
LacksPrice(current_price) ==
    current_price.avg_price = None \/ Hundredths(current_price.avg_price) = 0

\* get_price_trend_data(db, price_id, prod_name, current_date): the results
\* it can return, [raised, complete, data]; complete = FALSE is the empty
\* dict, raised the TypeError of `current_date - timedelta(...)`
get_price_trend_data(table, price_id, prod_name, current_date) ==
    IF \A r \in table : r.id # price_id THEN {NoTrend}
    ELSE IF LacksPrice(RowById(table, price_id)) THEN {NoTrend}
    ELSE IF current_date = None THEN {[NoTrend EXCEPT !.raised = TRUE]}
    ELSE {[raised |-> FALSE, complete |-> TRUE,
           data |-> TrendData(Hundredths(RowById(table, price_id).avg_price),
                              h1, h3, h7, h14, h30)] :
            h1 \in HistoricalPrice(table, prod_name, Hours(current_date) - 24 * 1),
            h3 \in HistoricalPrice(table, prod_name, Hours(current_date) - 24 * 3),
            h7 \in HistoricalPrice(table, prod_name, Hours(current_date) - 24 * 7),
            h14 \in HistoricalPrice(table, prod_name, Hours(current_date) - 24 * 14),
            h30 \in HistoricalPrice(table, prod_name, Hours(current_date) - 24 * 30)}

\* the answers the loop over `prices` can build for the rows in todo, as
\* functions from the row id to [price, trend]
RECURSIVE PricesWithTrend(_, _)
PricesWithTrend(table, todo) ==
    IF todo = {} THEN {<< >>}
    ELSE LET price == First(todo)
         IN  {(price.id :> [price |-> price, trend |-> trend]) @@ rest :
                 trend \in get_price_trend_data(table, price.id, price.prod_name, price.pub_date),
                 rest \in PricesWithTrend(table, todo \ {price})}

NoListing == [status |-> 0, trending |-> FALSE, items |-> << >>]

InitApi == listing = NoListing

\* a table of price rows, nothing listed yet
InitListing ==
    /\ rows \in PriceTables
    /\ rowsBefore = {}
    /\ callNo = 0
    /\ lastOp = "none"
    /\ lastArg = << >>
    /\ lastRes = NoRes
    /\ prevOp = "none"
    /\ prevArg = << >>
    /\ prevRes = NoRes

\* GET /api/prices?trending=...: every row with its trend data, or the 500
\* the handler turns any exception into
GetPrices ==
    /\ \E trending \in BOOLEAN :
         IF trending
         THEN \E items \in PricesWithTrend(rows, rows) :
                 listing' = IF \E id \in DOMAIN items : items[id].trend.raised
                            THEN [status |-> 500, trending |-> TRUE, items |-> << >>]
                            ELSE [status |-> 200, trending |-> TRUE, items |-> items]
         ELSE listing' = [status |-> 200, trending |-> FALSE,
                          items |-> [id \in {r.id : r \in rows} |->
                                       [price |-> RowById(rows, id), trend |-> NoTrend]]]

(***************************************************************************)
(* Two runs overlapping on one storage (api.py POST /api/sync starts       *)
(* sync_data as a background task, nothing serialises the runs)            *)
(***************************************************************************)
\* the runs: each has its own session and sees what the other committed
RunIds == {"A", "B"}

\* the records the upstream serves to both runs
OverlapPool ==
    {Base,
     [Base EXCEPT !.avgPrice = None],
     [Base EXCEPT !.id = 7],
     [Base EXCEPT !.id = 7, !.avgPrice = None]}

OverlapBatches == UNION {[1..n -> OverlapPool] : n \in 1..MaxPage}

\* no existence check made yet
NoCheck == [raised |-> FALSE, found |-> FALSE, id |-> 0]

\* a run about to call bulk_create_or_update(db, records)
RunStart(records) ==
    [pc |-> "lookup", records |-> records, existing |-> << >>, i |-> 1,
     created |-> 0, updated |-> 0, processed |-> << >>, check |-> NoCheck,
     absent |-> {}, inserted |-> {}, raised |-> FALSE]

\* no run in progress
InitOverlap == overlap = [r \in RunIds |-> RunStart(<< >>)]

\* both runs are handed a page before either touched the storage
InitRuns == overlap \in [RunIds -> {RunStart(b) : b \in OverlapBatches}]

\* the loop state of a run, on the storage as it is now
LoopOf(run) ==
    [table |-> rows, created |-> run.created, updated |-> run.updated,
     processed |-> run.processed]

\* the run moves on to its next record, or returns
Advance(run, st) ==
    [run EXCEPT !.created = st.created, !.updated = st.updated,
                !.processed = st.processed, !.i = @ + 1,
                !.pc = IF run.i + 1 > Len(run.records) THEN "done" ELSE "record"]

\* an existence check repeated at the INSERT
SeenBy_Fresh(check, table, record) == exists_by_unique_key(table, record)

\* what the INSERT of create() relies on: the answer its existence check got
\* when it ran, whatever was committed since
SeenBy(check, table, record) == check

\* the batch lookup of run r
OverlapLookupBy(r) ==
    /\ overlap[r].pc = "lookup"
    /\ \E ex \in {exists_batch_by_unique_key(rows, overlap[r].records)} :
         overlap' = [overlap EXCEPT ![r] =
                       IF ex.raised THEN [@ EXCEPT !.pc = "done", !.raised = TRUE]
                       ELSE [@ EXCEPT !.existing = ex.result, !.pc = "record"]]
    /\ UNCHANGED rows

\* run r takes its next record: skips it, updates the row its key names, or
\* enters create() and runs the existence check
OverlapResolveBy(r) ==
    /\ overlap[r].pc = "record"
    /\ \E run \in {overlap[r]} : \E record \in {run.records[run.i]} :
         IF ~Keyed(record)
         THEN /\ overlap' = [overlap EXCEPT ![r] = Advance(run, LoopOf(run))]
              /\ UNCHANGED rows
         ELSE \E key \in {UniqueKeyOfRecord(record)} :
                IF key \in DOMAIN run.processed \/ key \in DOMAIN run.existing
                THEN \E st \in {Resolve(LoopOf(run), run.existing, record, key)} :
                        /\ rows' = st.table
                        /\ overlap' = [overlap EXCEPT ![r] = Advance(run, st)]
                ELSE \E check \in {exists_by_unique_key(rows, record)} :
                        /\ overlap' = [overlap EXCEPT ![r] =
                                         [run EXCEPT !.pc = "insert", !.check = check,
                                                     !.absent = IF check.found \/ check.raised
                                                                THEN @ ELSE @ \cup {run.i}]]
                        /\ UNCHANGED rows

\* run r finishes create(): returns the row its check found, or adds and
\* commits the new row
OverlapInsertBy(r) ==
    /\ overlap[r].pc = "insert"
    /\ \E run \in {overlap[r]} : \E record \in {run.records[run.i]} :
       \E c \in {CreateRow(rows, record, ToRow(rows, record),
                           SeenBy(run.check, rows, record))} :
       \E st \in {AfterCreate(LoopOf(run), c, UniqueKeyOfRecord(record))} :
          /\ rows' = st.table
          /\ overlap' = [overlap EXCEPT ![r] =
                           [Advance(run, st) EXCEPT
                              !.inserted = IF c.raised \/ c.table = rows
                                           THEN @ ELSE @ \cup {run.i}]]

OverlapLookup == \E r \in RunIds : OverlapLookupBy(r)
OverlapResolve == \E r \in RunIds : OverlapResolveBy(r)
OverlapInsert == \E r \in RunIds : OverlapInsertBy(r)

(***************************************************************************)
(* Duplicate cleanup (data_manager.py)                                     *)
(***************************************************************************)
\* the columns get_duplicate_records groups by
Triple(row) == <<row.prod_name, row.pub_date, row.avg_price>>

\* the rows of the group of triple t: GROUP BY puts the NULLs of a column
\* together, and `column == None` is rendered as IS NULL in the filter
Group(table, t) == {r \in table : Triple(r) = t}

\* HAVING count(id) > 1
DuplicateTriples(table) == {t \in {Triple(r) : r \in table} : Cardinality(Group(table, t)) > 1}

\* the orders in which a query without ORDER BY can return the elements of S
Orderings(S) ==
    {f \in [1..Cardinality(S) -> S] : \A i, j \in 1..Cardinality(S) : f[i] = f[j] => i = j}

\* one entry of the list get_duplicate_records returns
DupGroup(table, t, record_ids) ==
    [triple |-> t, count |-> Cardinality(Group(table, t)), record_ids |-> record_ids]

\* the lists get_duplicate_records can return on `table`: an entry per
\* triple held by more than one row, with the ids of its rows
get_duplicate_records(table) ==
    {[k \in 1..Len(ts) |-> DupGroup(table, ts[k], ids[k])] :
        <<ts, ids>> \in
           {p \in Orderings(DuplicateTriples(table))
                   \X [1..Cardinality(DuplicateTriples(table)) ->
                          UNION {Orderings({r.id : r \in Group(table, t)}) :
                                    t \in DuplicateTriples(table)}] :
               \A k \in 1..Len(p[1]) :
                  p[2][k] \in Orderings({r.id : r \in Group(table, p[1][k])})}}

\* a cleanup that deletes every row of a group
ToDelete_WholeGroup(record_ids, keep_latest) == record_ids

\* record_ids_to_delete: record_ids[:-1] to keep the last one,
\* record_ids[1:] to keep the first one
ToDelete(record_ids, keep_latest) ==
    IF keep_latest THEN SubSeq(record_ids, 1, Len(record_ids) - 1)
    ELSE SubSeq(record_ids, 2, Len(record_ids))

RECURSIVE AllToDelete(_, _, _)
\* the ids the two nested loops pass to PriceDataCRUD.delete, in order
AllToDelete(duplicates, keep_latest, k) ==
    IF k > Len(duplicates) THEN << >>
    ELSE ToDelete(duplicates[k].record_ids, keep_latest)
         \o AllToDelete(duplicates, keep_latest, k + 1)

RECURSIVE DeleteEach(_, _, _, _)
\* PriceDataCRUD.delete over the first n ids: the row is removed and counted
\* when there is one under that id
DeleteEach(st, ids, i, n) ==
    IF i > n THEN st
    ELSE DeleteEach(IF \E r \in st.table : r.id = ids[i]
                    THEN [table |-> {r \in st.table : r.id # ids[i]},
                          deleted_count |-> st.deleted_count + 1]
                    ELSE st,
                    ids, i + 1, n)

\* no cleanup made yet
NoCleanup ==
    [status |-> "none", deleted_count |-> 0, keep_latest |-> FALSE, duplicates |-> << >>]

InitClean == cleaned = NoCleanup

\* the rows a cleanup is run on: on the triple (apple, 2024-01-15 10:00, 5.0)
\* three rows, on a NULL average price two rows, one row alone
DupPool ==
    {ToRow({}, [Base EXCEPT !.id = 1]),
     ToRow({}, [LowVariant EXCEPT !.id = 2]),
     ToRow({}, [Base EXCEPT !.id = 3, !.highPrice = "6.5"]),
     ToRow({}, [Base EXCEPT !.id = 4, !.avgPrice = "5.5"]),
     ToRow({}, [Base EXCEPT !.id = 5, !.avgPrice = None]),
     ToRow({}, [LowVariant EXCEPT !.id = 6, !.avgPrice = None])}

DupTables == SUBSET DupPool

\* a stored table, no call made on it yet
InitDuplicates ==
    /\ rows \in DupTables
    /\ rowsBefore = {}
    /\ callNo = 0
    /\ lastOp = "none"
    /\ lastArg = << >>
    /\ lastRes = NoRes
    /\ prevOp = "none"
    /\ prevArg = << >>
    /\ prevRes = NoRes

\* clean_duplicates(keep_latest): the groups are read, all but one row of
\* each group is deleted; the k-th delete may raise (fails_at = k), which
\* ends the call with status "error", the earlier deletes being committed
CleanDuplicates ==
    /\ cleaned.status = "none"
    /\ \E keep_latest \in BOOLEAN : \E duplicates \in get_duplicate_records(rows) :
       \E ids \in {AllToDelete(duplicates, keep_latest, 1)} :
       \E fails_at \in 0..Len(ids) :
       \E st \in {DeleteEach([table |-> rows, deleted_count |-> 0], ids, 1,
                             IF fails_at = 0 THEN Len(ids) ELSE fails_at - 1)} :
          /\ rows' = st.table
          /\ cleaned' = [status |-> IF fails_at = 0 THEN "success" ELSE "error",
                         deleted_count |-> IF fails_at = 0 THEN st.deleted_count ELSE 0,
                         keep_latest |-> keep_latest, duplicates |-> duplicates]
    /\ rowsBefore' = rows
    /\ UNCHANGED <<callNo, lastOp, lastArg, lastRes, prevOp, prevArg, prevRes>>

(***************************************************************************)
(* The scheduler (scheduler.py)                                            *)
(***************************************************************************)
\* 3 * 60 * 60
INTERVAL_SECONDS == 10800

\* how a run_scrape call can go: sync_data returns a summary with one of its
\* three statuses, or something inside the try block raises an Exception
RunOutcomes == {"success", "warning", "error", "raised"}

\* where main() is once run_scrape is over: an "error" summary and a caught
\* Exception both end in sys.exit(1), and SystemExit is caught neither by
\* `except Exception` in run_scrape nor by the two handlers of main
AfterRun(outcome) ==
    IF outcome \in {"success", "warning"} THEN "waiting" ELSE "exited"

\* the scheduler about to enter `while True`
InitSched ==
    sched = [pc |-> "loop", runs |-> 0, outcomes |-> << >>, slept |-> 0,
             interrupted |-> FALSE]

\* main calls run_scrape, run_scrape calls dm.sync_data
SchedStart ==
    /\ sched.pc = "loop"
    /\ sched' = [sched EXCEPT !.pc = "running",
                              !.runs = IF @ < MaxSchedRuns THEN @ + 1 ELSE @]

\* the run is over; its outcome is recorded for the first MaxSchedRuns runs
SchedRunEnds ==
    /\ sched.pc = "running"
    /\ \E outcome \in RunOutcomes :
         sched' = [sched EXCEPT !.pc = AfterRun(outcome),
                                !.outcomes = IF Len(@) < MaxSchedRuns
                                             THEN Append(@, outcome) ELSE @]

\* time.sleep(INTERVAL_SECONDS) returns and the loop starts over
SchedWait ==
    /\ sched.pc = "waiting"
    /\ sched' = [sched EXCEPT !.pc = "loop", !.slept = INTERVAL_SECONDS]

\* KeyboardInterrupt during the run or during the sleep: `break`
SchedInterrupt ==
    /\ sched.pc \in {"running", "waiting"}
    /\ sched' = [sched EXCEPT !.pc = "stopped", !.interrupted = TRUE]

\* the new state outside the other models
InitAux == InitOverlap /\ InitClean /\ InitSched

(***************************************************************************)
(* Specifications                                                          *)
(***************************************************************************)
Init == InitDedup /\ InitRequest /\ InitPages /\ InitSync /\ InitRate /\ InitApi /\ InitAux

\* the deduplication engine under an arbitrary sequence of calls
Next ==
    \/ BulkCreateOrUpdate /\ UNCHANGED reqVars /\ UNCHANGED pgVars /\ UNCHANGED syncVars /\ UNCHANGED rlVars /\ UNCHANGED listing /\ UNCHANGED auxVars
    \/ Create /\ UNCHANGED reqVars /\ UNCHANGED pgVars /\ UNCHANGED syncVars /\ UNCHANGED rlVars /\ UNCHANGED listing /\ UNCHANGED auxVars

Spec == Init /\ [][Next]_vars

\* one reconcile of an arbitrary batch on a storage an earlier reconcile filled
NextBatch ==
    \/ ReconcileOnce /\ UNCHANGED reqVars /\ UNCHANGED pgVars /\ UNCHANGED syncVars /\ UNCHANGED rlVars /\ UNCHANGED listing /\ UNCHANGED auxVars

InitStored ==
    InitBatch /\ InitRequest /\ InitPages /\ InitSync /\ InitRate /\ InitApi /\ InitAux

SpecBatch == InitStored /\ [][NextBatch]_vars

\* the fetch client against an arbitrary upstream
NextRequest ==
    \/ StartRequest /\ UNCHANGED dedupVars /\ UNCHANGED pgVars /\ UNCHANGED syncVars /\ UNCHANGED rlVars /\ UNCHANGED listing /\ UNCHANGED auxVars
    \/ AttemptReturns /\ UNCHANGED dedupVars /\ UNCHANGED pgVars /\ UNCHANGED syncVars /\ UNCHANGED rlVars /\ UNCHANGED listing /\ UNCHANGED auxVars
    \/ AttemptRaises /\ UNCHANGED dedupVars /\ UNCHANGED pgVars /\ UNCHANGED syncVars /\ UNCHANGED rlVars /\ UNCHANGED listing /\ UNCHANGED auxVars
    \/ RetrySleep /\ UNCHANGED dedupVars /\ UNCHANGED pgVars /\ UNCHANGED syncVars /\ UNCHANGED rlVars /\ UNCHANGED listing /\ UNCHANGED auxVars

SpecRequest == Init /\ [][NextRequest]_vars

\* the pagination driver against an arbitrary fetch client
NextPages ==
    \/ StartScrape /\ UNCHANGED dedupVars /\ UNCHANGED reqVars /\ UNCHANGED syncVars /\ UNCHANGED rlVars /\ UNCHANGED listing /\ UNCHANGED auxVars
    \/ FetchFails /\ UNCHANGED dedupVars /\ UNCHANGED reqVars /\ UNCHANGED syncVars /\ UNCHANGED rlVars /\ UNCHANGED listing /\ UNCHANGED auxVars
    \/ FetchSucceeds /\ UNCHANGED dedupVars /\ UNCHANGED reqVars /\ UNCHANGED syncVars /\ UNCHANGED rlVars /\ UNCHANGED listing /\ UNCHANGED auxVars
    \/ PageSleep /\ UNCHANGED dedupVars /\ UNCHANGED reqVars /\ UNCHANGED syncVars /\ UNCHANGED rlVars /\ UNCHANGED listing /\ UNCHANGED auxVars
    \/ FinishScrape /\ UNCHANGED dedupVars /\ UNCHANGED reqVars /\ UNCHANGED syncVars /\ UNCHANGED rlVars /\ UNCHANGED listing /\ UNCHANGED auxVars

SpecPages == Init /\ [][NextPages]_vars

\* the same driver with its walks followed beyond MaxFetches fetches
NextPagesLive ==
    \/ NextPages
    \/ FetchMore /\ UNCHANGED dedupVars /\ UNCHANGED reqVars /\ UNCHANGED syncVars /\ UNCHANGED rlVars /\ UNCHANGED listing /\ UNCHANGED auxVars

\* a step of the `while True` loop: a fetch that returns, or the sleep
LoopIteration ==
    /\ FetchFails \/ FetchSucceeds \/ FetchMore \/ PageSleep
    /\ UNCHANGED dedupVars /\ UNCHANGED reqVars /\ UNCHANGED syncVars
    /\ UNCHANGED rlVars /\ UNCHANGED listing /\ UNCHANGED auxVars

\* every scrape_page call and every sleep returns, so the loop goes on
SpecPagesLive == Init /\ [][NextPagesLive]_vars /\ WF_vars(LoopIteration)

\* sync_data runs, one after the other, against an arbitrary upstream
NextSync ==
    \/ StartSync /\ UNCHANGED reqVars /\ UNCHANGED rlVars /\ UNCHANGED listing /\ UNCHANGED auxVars
    \/ SyncFetchFails /\ UNCHANGED reqVars /\ UNCHANGED rlVars /\ UNCHANGED listing /\ UNCHANGED auxVars
    \/ SyncFetchSucceeds /\ UNCHANGED reqVars /\ UNCHANGED rlVars /\ UNCHANGED listing /\ UNCHANGED auxVars
    \/ SyncPageSleep /\ UNCHANGED reqVars /\ UNCHANGED rlVars /\ UNCHANGED listing /\ UNCHANGED auxVars
    \/ SyncFinish /\ UNCHANGED reqVars /\ UNCHANGED rlVars /\ UNCHANGED listing /\ UNCHANGED auxVars

SpecSync == Init /\ [][NextSync]_vars

\* calls of _make_request through the rate limiter, one caller; the clock
\* moves only when the code sleeps, the closest the attempts can get
NextRate ==
    \/ EnterLimiter /\ UNCHANGED dedupVars /\ UNCHANGED reqVars /\ UNCHANGED pgVars
                    /\ UNCHANGED syncVars /\ UNCHANGED listing /\ UNCHANGED auxVars
    \/ Post /\ UNCHANGED dedupVars /\ UNCHANGED reqVars /\ UNCHANGED pgVars
            /\ UNCHANGED syncVars /\ UNCHANGED listing /\ UNCHANGED auxVars

SpecRate == Init /\ [][NextRate]_vars

\* price listings on a table of price rows
InitTrend == InitListing /\ InitRequest /\ InitPages /\ InitSync /\ InitRate /\ InitApi /\ InitAux

NextTrend ==
    \/ GetPrices /\ UNCHANGED dedupVars /\ UNCHANGED reqVars /\ UNCHANGED pgVars
                 /\ UNCHANGED syncVars /\ UNCHANGED rlVars /\ UNCHANGED auxVars

SpecTrend == InitTrend /\ [][NextTrend]_vars

\* two runs reconciling a page each on an empty storage, their steps interleaved
InitRacing ==
    /\ InitDedup /\ InitRequest /\ InitPages /\ InitSync /\ InitRate /\ InitApi
    /\ InitRuns /\ InitClean /\ InitSched

NextOverlap ==
    \/ OverlapLookup /\ UNCHANGED callVars /\ UNCHANGED reqVars /\ UNCHANGED pgVars
                     /\ UNCHANGED syncVars /\ UNCHANGED rlVars /\ UNCHANGED listing
                     /\ UNCHANGED <<cleaned, sched>>
    \/ OverlapResolve /\ UNCHANGED callVars /\ UNCHANGED reqVars /\ UNCHANGED pgVars
                      /\ UNCHANGED syncVars /\ UNCHANGED rlVars /\ UNCHANGED listing
                      /\ UNCHANGED <<cleaned, sched>>
    \/ OverlapInsert /\ UNCHANGED callVars /\ UNCHANGED reqVars /\ UNCHANGED pgVars
                     /\ UNCHANGED syncVars /\ UNCHANGED rlVars /\ UNCHANGED listing
                     /\ UNCHANGED <<cleaned, sched>>

SpecOverlap == InitRacing /\ [][NextOverlap]_vars

\* one clean_duplicates call on a stored table
InitCleanup ==
    /\ InitDuplicates /\ InitRequest /\ InitPages /\ InitSync /\ InitRate /\ InitApi
    /\ InitAux

NextClean ==
    \/ CleanDuplicates /\ UNCHANGED reqVars /\ UNCHANGED pgVars /\ UNCHANGED syncVars
                       /\ UNCHANGED rlVars /\ UNCHANGED listing
                       /\ UNCHANGED <<overlap, sched>>

SpecClean == InitCleanup /\ [][NextClean]_vars

\* the scheduler process
NextSched ==
    \/ SchedStart /\ UNCHANGED dedupVars /\ UNCHANGED reqVars /\ UNCHANGED pgVars
                  /\ UNCHANGED syncVars /\ UNCHANGED rlVars /\ UNCHANGED listing
                  /\ UNCHANGED <<overlap, cleaned>>
    \/ SchedRunEnds /\ UNCHANGED dedupVars /\ UNCHANGED reqVars /\ UNCHANGED pgVars
                    /\ UNCHANGED syncVars /\ UNCHANGED rlVars /\ UNCHANGED listing
                    /\ UNCHANGED <<overlap, cleaned>>
    \/ SchedWait /\ UNCHANGED dedupVars /\ UNCHANGED reqVars /\ UNCHANGED pgVars
                 /\ UNCHANGED syncVars /\ UNCHANGED rlVars /\ UNCHANGED listing
                 /\ UNCHANGED <<overlap, cleaned>>
    \/ SchedInterrupt /\ UNCHANGED dedupVars /\ UNCHANGED reqVars /\ UNCHANGED pgVars
                      /\ UNCHANGED syncVars /\ UNCHANGED rlVars /\ UNCHANGED listing
                      /\ UNCHANGED <<overlap, cleaned>>

\* main between two runs: the sleep returns and run_scrape is called again
SchedProceeds ==
    /\ SchedStart \/ SchedWait
    /\ UNCHANGED dedupVars /\ UNCHANGED reqVars /\ UNCHANGED pgVars
    /\ UNCHANGED syncVars /\ UNCHANGED rlVars /\ UNCHANGED listing
    /\ UNCHANGED <<overlap, cleaned>>

\* time.sleep returns after the interval and the loop body is entered again
SpecScheduler == Init /\ [][NextSched]_vars /\ WF_vars(SchedProceeds)


(***************************************************************************)
(* Properties of the deduplication engine                                  *)
(***************************************************************************)

\* the business key of a record as the data model defines it: the 13 fields,
\* prices as numbers, the timestamp as a date-time, place and spec info with
\* null and the empty string identified
Number(v) == IF v = None THEN None ELSE ParseFloat(v)

BusinessKey(record) ==
    <<Get(record, "prodName"), Get(record, "prodCatid"), Get(record, "prodCat"),
      Get(record, "prodPcatid"), Get(record, "prodPcat"), Number(Get(record, "lowPrice")),
      Number(Get(record, "highPrice")), Number(Get(record, "avgPrice")),
      OrEmpty(Get(record, "place")), OrEmpty(Get(record, "specInfo")),
      Get(record, "unitInfo"), ParseDate(Get(record, "pubDate")), Get(record, "status")>>

KeyedRecords(records) == {i \in 1..Len(records) : Keyed(records[i])}

DistinctKeys(records) == {BusinessKey(records[i]) : i \in KeyedRecords(records)}

\* every keyed record of the batch carries a timestamp in the fixed format
WellFormed(records) ==
    \A i \in KeyedRecords(records) : ParseDate(Get(records[i], "pubDate")) # Err

\* C1: reconciling the identical batch twice from empty storage creates on the
\* first call only; the second call counts every keyed record as updated and
\* leaves the number of rows unchanged
C1_IdempotentBatchDedup ==
    (/\ callNo = 2 /\ prevOp = "bulk" /\ lastOp = "bulk"
     /\ lastArg = prevArg
     /\ KeyedRecords(lastArg) # {} /\ WellFormed(lastArg))
    => /\ ~prevRes.raised /\ ~lastRes.raised
       /\ prevRes.created > 0
       /\ lastRes.created = 0
       /\ lastRes.updated = Cardinality(KeyedRecords(lastArg))
       /\ Cardinality(rows) = Cardinality(rowsBefore)

\* C2: a batch with n keyed records and d distinct keys, submitted to storage
\* that holds none of them, returns (created, updated) = (d, n - d) and leaves
\* d rows; a pair of identical records gives (1, 1) and one row
C2_InBatchCollapse ==
    (callNo = 1 /\ lastOp = "bulk" /\ KeyedRecords(lastArg) # {} /\ WellFormed(lastArg))
    => /\ ~lastRes.raised
       /\ lastRes.created = Cardinality(DistinctKeys(lastArg))
       /\ lastRes.updated = Cardinality(KeyedRecords(lastArg)) - Cardinality(DistinctKeys(lastArg))
       /\ Cardinality(rows) = Cardinality(DistinctKeys(lastArg))

\* the fields of the single-field-change property, by position in BusinessKey
VariantFields == {6, 7, 8, 9, 10, 11, 13}

\* variant differs from base in exactly one of the seven fields and in
\* nothing else
SingleFieldVariantOf(variant, base) ==
    /\ Keyed(base) /\ Keyed(variant)
    /\ WellFormed(<<base, variant>>)
    /\ variant.id = base.id
    /\ Cardinality({k \in 1..13 : BusinessKey(variant)[k] # BusinessKey(base)[k]}) = 1
    /\ \E k \in VariantFields : BusinessKey(variant)[k] # BusinessKey(base)[k]

\* C3: once a base record is stored, submitting a single-field variant of it
\* adds a row with another identifier and leaves the base row as it was
C3_SingleFieldChangeIndependence ==
    (/\ callNo = 2 /\ prevOp = "create" /\ ~prevRes.raised
     /\ lastOp \in {"create", "bulk"} /\ Len(lastArg) = 1
     /\ SingleFieldVariantOf(lastArg[1], prevArg[1]))
    => /\ ~lastRes.raised
       /\ rowsBefore \subseteq rows
       /\ Cardinality(rows) = Cardinality(rowsBefore) + 1
       /\ lastOp = "create" => lastRes.id # prevRes.id

\* C4: two records of one batch with the same publish date that differ in
\* category id (same product) or in product name are both created
C4_CategoryProductIndependence ==
    (/\ callNo = 1 /\ lastOp = "bulk" /\ Len(lastArg) = 2
     /\ Keyed(lastArg[1]) /\ Keyed(lastArg[2]) /\ WellFormed(lastArg)
     /\ lastArg[1].pubDate = lastArg[2].pubDate
     /\ \/ lastArg[1].prodName # lastArg[2].prodName
        \/ lastArg[1].prodCatid # lastArg[2].prodCatid)
    => /\ lastRes.created = 2
       /\ lastRes.updated = 0
       /\ Cardinality(rows) = 2

\* the two records are one record up to null / empty string in place and
\* spec info
SameUpToNull(a, b) ==
    /\ Keyed(a) /\ Keyed(b) /\ WellFormed(<<a, b>>)
    /\ a.id = b.id
    /\ BusinessKey(a) = BusinessKey(b)
    /\ \/ None \in {a.place, b.place}
       \/ None \in {a.specInfo, b.specInfo}

\* C5: records that differ only by null versus empty place / spec info are
\* one record: together in a batch they give 1 created + 1 updated and one
\* row; in two successive calls the second creates nothing and one row remains
C5_NullEmptyNormalization ==
    /\ (/\ callNo = 1 /\ lastOp = "bulk" /\ Len(lastArg) = 2
        /\ SameUpToNull(lastArg[1], lastArg[2]))
       => /\ lastRes.created = 1 /\ lastRes.updated = 1
          /\ Cardinality(rows) = 1
    /\ (/\ callNo = 2 /\ prevOp = "bulk" /\ lastOp = "bulk"
        /\ Len(prevArg) = 1 /\ Len(lastArg) = 1
        /\ SameUpToNull(prevArg[1], lastArg[1]))
       => /\ lastRes.created = 0
          /\ Cardinality(rows) = 1


(***************************************************************************)
(* Properties of the fetch client                                          *)
(***************************************************************************)
TransportErrors == {"ConnectionError", "Timeout", "HTTPError"}

\* the first k attempts of the current call met a transport-level error
FailedFirst(k) ==
    /\ k <= Len(outcomes)
    /\ \A i \in 1..k : outcomes[i].kind \in TransportErrors

\* C6: when every attempt of a call fails with a transport-level error the
\* call makes exactly RETRY_MAX_ATTEMPTS attempts and RETRY_MAX_ATTEMPTS - 1
\* sleeps, none after the last attempt, and returns None
C6_RetryBound ==
    (reqPc = "done" /\ outcomes # << >> /\ FailedFirst(Len(outcomes)))
    => /\ posts = RETRY_MAX_ATTEMPTS
       /\ Len(sleeps) = RETRY_MAX_ATTEMPTS - 1
       /\ reqResult = Failure

C6_Witness ==
    /\ reqPc = "done"
    /\ Len(outcomes) = RETRY_MAX_ATTEMPTS
    /\ FailedFirst(RETRY_MAX_ATTEMPTS)
    /\ Len(sleeps) = RETRY_MAX_ATTEMPTS - 1

\* C7: when the first k attempts fail with a transport-level error and
\* attempt k + 1 succeeds, the call makes k + 1 attempts, sleeps k times for
\* RETRY_INTERVAL each and returns the payload of the successful attempt
C7_RetryUntilFirstSuccess ==
    \A k \in 0..(RETRY_MAX_ATTEMPTS - 1) :
        (/\ reqPc = "done" /\ Len(outcomes) >= k + 1
         /\ FailedFirst(k) /\ outcomes[k + 1].kind = "ok")
        => /\ posts = k + 1
           /\ Len(outcomes) = k + 1
           /\ Len(sleeps) = k
           /\ \A i \in 1..Len(sleeps) : sleeps[i] = RETRY_INTERVAL
           /\ reqResult = outcomes[k + 1].payload

C7_Witness ==
    /\ reqPc = "done"
    /\ Len(outcomes) = 3 /\ FailedFirst(2) /\ outcomes[3].kind = "ok"
    /\ sleeps = <<RETRY_INTERVAL, RETRY_INTERVAL>>
    /\ reqResult = outcomes[3].payload /\ reqResult.n > 0

\* C8 as stated: a call in which some attempt met a malformed body makes one
\* attempt in total, never sleeps and returns None
C8_NoRetryOnParseError_Original ==
    (reqPc = "done" /\ \E i \in 1..Len(outcomes) : outcomes[i].kind = "JSONDecodeError")
    => /\ posts = 1
       /\ sleeps = << >>
       /\ reqResult = Failure

\* C8 amended: the attempt that meets a malformed body is the last one of the
\* call - no attempt and no sleep follows it, the call returns None at once -
\* so the call makes k + 1 attempts and k sleeps when k transport-level
\* failures preceded it, exactly one attempt and no sleep when none did
C8_NoRetryOnParseError ==
    \A i \in 1..Len(outcomes) :
        outcomes[i].kind = "JSONDecodeError"
        => /\ reqPc = "done"
           /\ i = Len(outcomes)
           /\ posts = i
           /\ Len(sleeps) = i - 1
           /\ FailedFirst(i - 1)
           /\ reqResult = Failure

C8_Witness ==
    /\ reqPc = "done"
    /\ Len(outcomes) = 1 /\ outcomes[1].kind = "JSONDecodeError"
    /\ posts = 1 /\ sleeps = << >> /\ reqResult = Failure

(***************************************************************************)
(* Properties of the pagination driver                                     *)
(***************************************************************************)

\* the number of records an honest source holding T records serves on page p
HonestSize(T, p) ==
    IF T - (p - 1) * limit >= limit THEN limit
    ELSE IF T - (p - 1) * limit > 0 THEN T - (p - 1) * limit
    ELSE 0

\* every response of the current walk came from a source that holds T
\* records and never fails
HonestSource(T) ==
    \A i \in 1..Len(responses) :
        /\ responses[i].kind = "dict"
        /\ responses[i].count = T
        /\ responses[i].n = HonestSize(T, requested[i])

\* C9: against a source with T records, T not a multiple of the page size,
\* and without page cap, the walk requests pages 1 .. ceil(T / limit) in that
\* order and stops there
C9_PaginationTruncation ==
    \A T \in 1..MaxTotal :
        (max_pages = NoCap /\ T % limit # 0 /\ HonestSource(T))
        => /\ Len(requested) <= CeilDiv(T, limit)
           /\ \A i \in 1..Len(requested) : requested[i] = i
           /\ pgPc \in {"done", "idle"} /\ requested # << >>
              => /\ Len(requested) = CeilDiv(T, limit)
                 /\ responses[Len(responses)].n = T % limit
                 /\ ~pgRaised

C9_Witness ==
    /\ pgPc = "done" /\ max_pages = NoCap /\ limit = 2
    /\ HonestSource(5)
    /\ requested = <<1, 2, 3>>
    /\ responses[1].n = 2 /\ responses[2].n = 2 /\ responses[3].n = 1

RECURSIVE Concat(_, _)
\* the records of the first k pages fetched, in page order
Concat(k, acc) ==
    IF k = 0 THEN acc
    ELSE Concat(k - 1, PageRecords(requested[k], responses[k].n) \o acc)

\* C10: when the fetch of page p fails the walk requests nothing more, does
\* not raise, and the pages fetched before p have been handed to the callback
\* or are in the returned list
C10_FailureTruncatesPagination ==
    \A i \in 1..Len(responses) :
        responses[i] = Failure
        => /\ i = Len(responses)
           /\ pgPc \in {"done", "idle"}
           /\ ~pgRaised
           /\ has_callback =>
                /\ Len(delivered) = i - 1
                /\ \A j \in 1..(i - 1) :
                     /\ delivered[j].page = requested[j]
                     /\ delivered[j].records = PageRecords(requested[j], responses[j].n)
           /\ ~has_callback => pgReturn = Concat(i - 1, << >>)

C10_Witness ==
    /\ pgPc = "done" /\ has_callback
    /\ Len(responses) = 3 /\ responses[3] = Failure
    /\ Len(delivered) = 2


(***************************************************************************)
(* Properties of the page callback                                         *)
(***************************************************************************)

\* the positions of the fetches of the current walk that returned a page
Fetched == {j \in 1..Len(responses) : ~IsFailure(responses[j])}

\* the positions of the invocations of the callback for the page fetched at j
InvocationsFor(j) == {k \in 1..Len(delivered) : delivered[k].page = requested[j]}

\* the invocations run in increasing page order, each one when the fetch of
\* its page is the last fetch issued, hence before the fetch of the next page
InvokedInOrder ==
    /\ \A k \in 1..Len(delivered) :
          /\ delivered[k].fetches \in 1..Len(requested)
          /\ requested[delivered[k].fetches] = delivered[k].page
    /\ \A k, l \in 1..Len(delivered) : k < l => delivered[k].page < delivered[l].page

\* C11, as stated: with a save callback, the callback is invoked exactly once
\* for every successfully fetched page, in increasing page order, and before
\* the next page is fetched
C11_PerPageCallbackOrdering_Original ==
    has_callback =>
        /\ \A j \in Fetched : Cardinality(InvocationsFor(j)) = 1
        /\ InvokedInOrder

\* the fetched pages the loop hands to the callback: the ones that hold at
\* least one record, the first one with a count the totals can be computed from
HandedOver == {j \in Fetched : responses[j].n > 0 /\ ~(j = 1 /\ responses[j].count = BadCount)}

\* C11, amended: with a save callback, the callback is invoked exactly once
\* for every successfully fetched page that holds at least one record, not at
\* all for a fetched page without records, in increasing page order, and the
\* invocation for a page ends before the fetch of the next page is issued
C11_PerPageCallbackOrdering ==
    has_callback =>
        /\ \A j \in HandedOver : Cardinality(InvocationsFor(j)) = 1
        /\ \A j \in Fetched \ HandedOver : InvocationsFor(j) = {}
        /\ Len(delivered) = Cardinality(HandedOver)
        /\ InvokedInOrder

\* a walk with a callback over two full pages and a third, empty page
C11_Witness ==
    /\ pgPc = "done" /\ has_callback /\ ~pgRaised
    /\ Len(responses) = 3 /\ Fetched = {1, 2, 3}
    /\ responses[3].n = 0
    /\ Len(delivered) = 2 /\ delivered[2].page = 2 /\ delivered[2].fetches = 2


(***************************************************************************)
(* Properties of the page cap                                              *)
(***************************************************************************)

\* ceil(total_count / page_size), clamped to max_pages: the number of pages
\* the data model gives the walk once the first page reported the total
PageBound == Min({max_pages, CeilDiv(total_count, limit)})

\* C12: with max_pages supplied the walk issues at most max_pages fetches and,
\* once the first page reported total_count, requests no page number greater
\* than min(max_pages, ceil(total_count / page_size)), whatever the source
\* returns
C12_PageCap ==
    (max_pages # NoCap)
    => /\ Len(requested) <= max_pages
       /\ (total_count # NoTotal /\ ~pgRaised)
          => \A j \in 2..Len(requested) : requested[j] <= PageBound

\* the first half of C12 alone: never more than max_pages fetches, page
\* numbers 1, 2, ... up to max_pages
FetchesWithinCap ==
    (max_pages # NoCap)
    => /\ Len(requested) <= max_pages
       /\ \A j \in 1..Len(requested) : requested[j] = j


(***************************************************************************)
(* Properties of the orchestrator                                          *)
(***************************************************************************)

\* a run has returned and no other has started
RunReturned == syncPc = "idle" /\ runNo > 0

\* the run saw at least one record on the pages it fetched
SawRecords == \E j \in Fetched : responses[j].n > 0

\* the audit entries the current run wrote
EntriesOfRun == SubSeq(logs, logsAtStart + 1, Len(logs))

RECURSIVE SumOver(_, _, _)
\* the sum of Field(call) over the first k reconciles of the run that returned
SumOver(Field(_), calls, k) ==
    IF k = 0 THEN 0
    ELSE SumOver(Field, calls, k - 1) + (IF calls[k].raised THEN 0 ELSE Field(calls[k]))

SizeOf(call) == call.n
CreatedBy(call) == call.created
UpdatedBy(call) == call.updated

\* the totals over the pages the deduplication engine reconciled in the run
HandedTotal == SumOver(SizeOf, reconciled, Len(reconciled))
HandedNew == SumOver(CreatedBy, reconciled, Len(reconciled))
HandedUpdated == SumOver(UpdatedBy, reconciled, Len(reconciled))

\* C13: a run that completes normally (no exception reached its handler)
\* with a running total of records seen of at least one writes exactly one
\* audit entry, a "success" one carrying the totals accumulated over the pages
\* the deduplication engine reconciled, and returns a "success" summary with
\* the same three totals
C13_SuccessPath ==
    (RunReturned /\ summary.status # "error" /\ HandedTotal > 0)
    => /\ EntriesOfRun = <<LogEntry("success", HandedTotal, HandedNew, HandedUpdated, None)>>
       /\ summary = Summary("success", "done", HandedTotal, HandedNew, HandedUpdated)

\* a run with immediate save over two pages, the first one full, has
\* returned "success" and left its entry
C13_Witness ==
    /\ RunReturned /\ immediate_save
    /\ Len(reconciled) = 2 /\ reconciled[1].n = 2 /\ ~reconciled[1].raised
    /\ ~reconciled[2].raised
    /\ summary.status = "success" /\ summary.updated_records > 0
    /\ Len(EntriesOfRun) = 1


\* an exception was raised inside the run's `try`: by the scraper, or by the
\* reconcile of a run without immediate save
RaisedInRun ==
    \/ pgRaised
    \/ /\ ~immediate_save /\ reconciled # << >>
       /\ reconciled[Len(reconciled)].raised

\* C14: whatever exception is raised while a run is in progress, the run
\* returns a summary with status "error" and zero totals, having written at
\* most one audit entry, an "error" one with the exception message (none when
\* that write failed); every run returns a summary, none raises
C14_NeverPropagates ==
    RunReturned
    => /\ summary.status \in {"success", "warning", "error"}
       /\ RaisedInRun => summary.status = "error"
       /\ summary.status = "error"
          => /\ summary = Summary("error", summary.message, 0, 0, 0)
             /\ summary.message # None
             /\ EntriesOfRun \in {<< >>, <<LogEntry("error", 0, 0, 0, summary.message)>>}

\* a date-window run whose walk raised on the first page and whose error
\* entry could not be written
C14_Witness ==
    /\ RunReturned /\ pgRaised /\ days_back # NoDays
    /\ Len(responses) = 1
    /\ summary.status = "error"
    /\ EntriesOfRun = << >>


\* C15: a run that saw no record on any page returns a "warning" summary
\* with the three totals at 0 and writes no audit entry
C15_NoDataOutcome ==
    (RunReturned /\ ~SawRecords)
    => /\ summary.status = "warning"
       /\ summary.total_records = 0 /\ summary.new_records = 0
       /\ summary.updated_records = 0
       /\ EntriesOfRun = << >>

\* the same for a date-window run whose walk did not raise
NoDataOutcomeWithWindow ==
    (days_back # NoDays /\ ~pgRaised) => C15_NoDataOutcome


RECURSIVE RecordsOnPages(_)
\* the number of records on the first k pages the run fetched
RecordsOnPages(k) == IF k = 0 THEN 0 ELSE RecordsOnPages(k - 1) + responses[k].n

\* pages 1..k, each non-empty, were fetched and reconciled, the fetch of page
\* k+1 failed, and the storage took the audit entry
PartialRun(k) ==
    /\ RunReturned /\ days_back # NoDays
    /\ k >= 1 /\ Len(responses) = k + 1
    /\ \A j \in 1..k : ~IsFailure(responses[j]) /\ responses[j].n > 0
    /\ IsFailure(responses[k + 1])
    /\ reconciled # << >>
    /\ \A c \in 1..Len(reconciled) : ~reconciled[c].raised
    /\ summary.message # "create_log failed"

\* C16: a date-window run that fetched and persisted pages 1..k and then met
\* a failed fetch returns "success" with total_records = the number of
\* records on pages 1..k, and the rows written for these pages are in storage
C16_PartialSuccess ==
    \A k \in 1..MaxFetches :
        PartialRun(k)
        => /\ summary.status = "success"
           /\ summary.total_records = RecordsOnPages(k)
           /\ EntriesOfRun # << >> /\ EntriesOfRun[1].status = "success"
           /\ \A c \in 1..Len(reconciled) : reconciled[c].table \subseteq rows
           /\ rows # {}

\* two full pages persisted one by one, the third fetch failed
C16_Witness ==
    /\ PartialRun(2) /\ immediate_save /\ limit = 2
    /\ Len(reconciled) = 2
    /\ summary.status = "success" /\ summary.total_records = 4


(***************************************************************************)
(* Properties of the batch loop                                            *)
(***************************************************************************)

\* the record lacks the product name or the publish timestamp
LacksNameOrTimestamp(record) ==
    \/ Get(record, "prodName") \in {None, ""}
    \/ Get(record, "pubDate") \in {None, ""}

HasNameAndTimestamp(record) == ~LacksNameOrTimestamp(record)

\* what the last call returned and left in storage
LastOutcome ==
    [table |-> rows, raised |-> lastRes.raised, created |-> lastRes.created,
     updated |-> lastRes.updated]

\* C17: a record without product name or without publish timestamp is
\* dropped by bulk_create_or_update: the call leaves the storage and returns
\* the counters that the batch without such records gives; a batch of such
\* records only writes nothing and counts nothing
C17_SkipRule ==
    (lastOp = "bulk" /\ \E i \in 1..Len(lastArg) : LacksNameOrTimestamp(lastArg[i]))
    => /\ LastOutcome = bulk_create_or_update(rowsBefore,
                                              SelectSeq(lastArg, HasNameAndTimestamp))
       /\ (\A i \in 1..Len(lastArg) : LacksNameOrTimestamp(lastArg[i]))
          => /\ rows = rowsBefore
             /\ lastRes.created = 0 /\ lastRes.updated = 0 /\ ~lastRes.raised

\* a batch of a record without timestamp followed by a complete record,
\* which is created
C17_Witness ==
    /\ lastOp = "bulk" /\ Len(lastArg) = 2
    /\ Get(lastArg[1], "pubDate") = None
    /\ HasNameAndTimestamp(lastArg[2])
    /\ lastRes.created = 1 /\ lastRes.updated = 0
    /\ Cardinality(rows) = Cardinality(rowsBefore) + 1


\* the record has a product name and a textual timestamp that does not parse
UnparsableTimestamp(record) ==
    /\ HasNameAndTimestamp(record)
    /\ ParseDate(Get(record, "pubDate")) = Err

ParsableOrSkipped(record) == ~UnparsableTimestamp(record)

\* C18: a record whose timestamp does not parse is skipped and nothing more:
\* the call does not raise, and the other records of the batch are created
\* or updated and counted as in the batch without that record
C18_TimestampFailureIsLocal ==
    (lastOp = "bulk" /\ \E i \in 1..Len(lastArg) : UnparsableTimestamp(lastArg[i]))
    => /\ ~lastRes.raised
       /\ LastOutcome = bulk_create_or_update(rowsBefore,
                                              SelectSeq(lastArg, ParsableOrSkipped))

\* the loop state before the i-th record of the last batch is processed,
\* `existing` being what the batch lookup returned
LoopState(existing, i) ==
    ProcessRecords([table |-> rowsBefore, created |-> 0, updated |-> 0, processed |-> << >>],
                   existing, SubSeq(lastArg, 1, i - 1), 1)

\* the storage operation the loop runs for `record` in the loop state st
StorageOp(st, existing, record, key) ==
    IF key \in DOMAIN st.processed THEN update(st.table, st.processed[key], record)
    ELSE IF key \in DOMAIN existing THEN update(st.table, existing[key].id, record)
    ELSE create(st.table, record)

\* the create or update of the i-th record of the last batch failed
StorageFailed(i) ==
    /\ lastOp = "bulk" /\ i \in 1..Len(lastArg)
    /\ HasNameAndTimestamp(lastArg[i])
    /\ \E ex \in {exists_batch_by_unique_key(rowsBefore, lastArg)} :
         /\ ~ex.raised
         /\ StorageOp(LoopState(ex.result, i), ex.result, lastArg[i],
                      UniqueKeyOfRecord(lastArg[i])).raised

\* the rows of `table` are all in the storage, each under its identifier or
\* under its key (a later update of the batch may have rewritten either)
StillPresent(table) ==
    /\ \A r \in table :
          \E q \in rows : q.id = r.id \/ UniqueKeyOfRow(q) = UniqueKeyOfRow(r)
    /\ Cardinality(rows) >= Cardinality(table)

\* C19: when the create or update of one record fails, the call returns, the
\* record changes neither the storage nor the counters, the records after it
\* are processed from the state it was met in, and every row written earlier
\* in the batch is in storage when the call returns
C19_PerRecordStorageFailure ==
    \A i \in 1..MaxBatch :
        StorageFailed(i)
        => \A ex \in {exists_batch_by_unique_key(rowsBefore, lastArg).result} :
             \A st \in {LoopState(ex, i)} :
               /\ ~lastRes.raised
               /\ LoopState(ex, i + 1) = st
               /\ lastRes.created + lastRes.updated <= Len(lastArg) - 1
               /\ LastOutcome = Returned(LoopState(ex, Len(lastArg) + 1))
               /\ StillPresent(st.table)

\* the first record of the batch failed on the primary key, the second one
\* was created
C19_Witness ==
    /\ Len(lastArg) = 2 /\ StorageFailed(1) /\ ~StorageFailed(2)
    /\ lastRes.created = 1
    /\ Cardinality(rows) = Cardinality(rowsBefore) + 1


(***************************************************************************)
(* Properties of the rate limiter                                          *)
(***************************************************************************)

\* the HTTP attempts made in the period of length RATE_LIMIT_PERIOD that
\* starts with the i-th attempt
AttemptsInPeriodFrom(i) ==
    {j \in i..Len(postTimes) : postTimes[j] < postTimes[i] + RATE_LIMIT_PERIOD}

\* C20: no period of length RATE_LIMIT_PERIOD holds more than
\* RATE_LIMIT_CALLS HTTP attempts, retries included; a call over the limit
\* waits for the window to end and is then performed
C20_RateLimit ==
    /\ \A i \in 1..Len(postTimes) :
          Cardinality(AttemptsInPeriodFrom(i)) <= RATE_LIMIT_CALLS
    /\ rlPc = "blocked" => clock = last_reset + RATE_LIMIT_PERIOD

\* what the decorator does bound: the calls of _make_request it lets through
\* in one window of its own, and a call over the limit waits for the window
\* to end
AdmittedPerWindow ==
    /\ rlPc = "calling" => num_calls <= RATE_LIMIT_CALLS
    /\ rlPc = "blocked" => clock = last_reset + RATE_LIMIT_PERIOD


(***************************************************************************)
(* Properties of the accumulate mode                                       *)
(***************************************************************************)

\* the walk has ended by a short page, by the page cap or by a failed fetch
WalkReturned == pgPc \in {"done", "idle"} /\ requested # << >> /\ ~pgRaised

\* C21: without a callback, scrape_all_pages returns the records of every
\* successfully fetched page, and only those, in page order and in
\* within-page order, however the walk ended
C21_AccumulateMode ==
    (WalkReturned /\ ~has_callback)
    => /\ \A j \in 1..Len(responses) : IsFailure(responses[j]) => j = Len(responses)
       /\ pgReturn = Concat(Cardinality(Fetched), << >>)
       /\ delivered = << >>

\* two full pages accumulated, the third fetch failed
C21_Witness ==
    /\ pgPc = "done" /\ ~has_callback /\ ~pgRaised /\ limit = 2
    /\ Len(responses) = 3 /\ Fetched = {1, 2}
    /\ pgReturn = <<<<1, 1>>, <<1, 2>>, <<2, 1>>, <<2, 2>>>>


(***************************************************************************)
(* Properties of the single-record create                                  *)
(***************************************************************************)

\* the business key of a stored row, place and spec info with null and the
\* empty string identified
RowBusinessKey(row) ==
    <<row.prod_name, row.prod_catid, row.prod_cat, row.prod_pcatid, row.prod_pcat,
      row.low_price, row.high_price, row.avg_price, OrEmpty(row.place),
      OrEmpty(row.spec_info), row.unit_info, row.pub_date, row.status>>

\* a keyed record d was created, then created again with the identical data
CreatedTwice ==
    /\ callNo = 2 /\ prevOp = "create" /\ lastOp = "create"
    /\ lastArg = prevArg
    /\ Keyed(lastArg[1]) /\ WellFormed(lastArg)
    /\ ~prevRes.raised

\* what C22 asks of the existence check and of the second create
AgreesWithExistenceCheck ==
    /\ \A d \in Pool \cup SingleFieldVariants :
          (/\ Keyed(d) /\ WellFormed(<<d>>)
           /\ \A r \in rows : RowBusinessKey(r) # BusinessKey(d))
          => /\ ~exists_by_unique_key(rows, d).raised
             /\ ~exists_by_unique_key(rows, d).found
    /\ CreatedTwice
       => /\ exists_by_unique_key(rowsBefore, lastArg[1]).found
          /\ exists_by_unique_key(rowsBefore, lastArg[1]).id = prevRes.id
          /\ ~lastRes.raised
          /\ lastRes.id = prevRes.id
          /\ Cardinality(rows) = 1

\* C22: exists_by_unique_key(d) finds no row when no stored row has d's
\* business key; after create(d) it finds the created row; a second
\* create(d) with the identical data returns the row of the first call and
\* leaves exactly one row
C22_CreateIdempotent == AgreesWithExistenceCheck

\* the same for the records that carry a place and a spec info
CreateIdempotentWithPlace ==
    (CreatedTwice /\ Truthy(lastArg[1].place) /\ Truthy(lastArg[1].specInfo))
    => /\ exists_by_unique_key(rowsBefore, lastArg[1]).found
       /\ exists_by_unique_key(rowsBefore, lastArg[1]).id = prevRes.id
       /\ ~lastRes.raised
       /\ lastRes.id = prevRes.id
       /\ Cardinality(rows) = 1


(***************************************************************************)
(* Properties of the trend data                                            *)
(***************************************************************************)

\* the ten fields of trend_data for the period of d days: <<change, percent>>
FieldsOf(data, d) ==
    CASE d = 1 -> <<data.change_1d, data.change_1d_percent>>
      [] d = 3 -> <<data.change_3d, data.change_3d_percent>>
      [] d = 7 -> <<data.change_7d, data.change_7d_percent>>
      [] d = 14 -> <<data.change_14d, data.change_14d_percent>>
      [] d = 30 -> <<data.change_30d, data.change_30d_percent>>

\* the records of the product of `price` that carry an average price and
\* were published d days before it or earlier
Qualifying(price, d) ==
    {r \in rows : /\ r.prod_name = price.prod_name
                  /\ r.avg_price # None
                  /\ r.pub_date # None
                  /\ Hours(r.pub_date) + 24 * d <= Hours(price.pub_date)}

\* the average prices, in hundredths, of the latest of these records
LatestPrices(price, d) ==
    {Hundredths(r.avg_price) :
        r \in {q \in Qualifying(price, d) :
                 \A o \in Qualifying(price, d) : Hours(o.pub_date) <= Hours(q.pub_date)}}

\* p is (c - h) / h * 100 rounded to 2 decimals, everything in hundredths
IsPercentOf(p, c, h) ==
    /\ 2 * (p * h - (c - h) * 10000) <= h
    /\ 2 * ((c - h) * 10000 - p * h) <= h

\* the two values reported for the period of d days are the ones the
\* historical price h gives
ReportsChange(fields, c, h) ==
    /\ ~fields[1].null /\ fields[1].hundredths = c - h
    /\ h # 0 => ~fields[2].null /\ IsPercentOf(fields[2].hundredths, c, h)

\* the trend data of the listed record are the ones of the definition
TrendAsDefined(price, trend) ==
    /\ trend.complete
    /\ \A d \in TimePeriods :
          IF Qualifying(price, d) = {}
          THEN FieldsOf(trend.data, d)[1].null /\ FieldsOf(trend.data, d)[2].null
          ELSE \E h \in LatestPrices(price, d) :
                  ReportsChange(FieldsOf(trend.data, d), Hundredths(price.avg_price), h)

\* the records of the last listing that came with trend data
Listed == IF listing.status = 200 /\ listing.trending THEN DOMAIN listing.items ELSE {}

\* C23: for a stored record with average price c and publish time t and for
\* each period d of 1, 3, 7, 14, 30 days, with h the average price of the
\* latest record of the product published at or before t - d days that has an
\* average price, the trend data hold change = c - h and percent =
\* (c - h) / h * 100, rounded to 2 decimals; both are null without such record
C23_TrendComputation ==
    \A id \in Listed :
        (listing.items[id].price.avg_price # None /\ listing.items[id].price.pub_date # None)
        => TrendAsDefined(listing.items[id].price, listing.items[id].trend)

\* the same when no price involved is 0
TrendOnNonzeroPrices ==
    (\A r \in rows : r.avg_price # None => Hundredths(r.avg_price) # 0)
    => C23_TrendComputation

\* the example: 10.0 today, 8.0 thirty days earlier and 3.0 seven days earlier
TrendExample ==
    (/\ rows = {RowById(PricePool, 1), RowById(PricePool, 2), RowById(PricePool, 3)}
     /\ 1 \in Listed)
    => /\ listing.items[1].trend.data.change_30d = Rounded(200)
       /\ listing.items[1].trend.data.change_30d_percent = Rounded(2500)
       /\ listing.items[1].trend.data.change_7d = Rounded(700)
       /\ listing.items[1].trend.data.change_7d_percent = Rounded(23333)
       /\ listing.items[1].trend.data.change_1d = Rounded(700)
       /\ listing.items[1].trend.data.change_14d = Rounded(200)

\* C24: every record of a listing with trending enabled carries the ten
\* fields change_<d>d and change_<d>d_percent, each null or a number, also
\* when its own average price is null or 0 and when it has no history
C24_TrendDataComplete ==
    /\ listing.trending => listing.status = 200
    /\ \A id \in Listed : listing.items[id].trend.complete

\* the same for the records with a nonzero average price and a publish time
TrendDataCompleteWithPrice ==
    (\A r \in rows : ~LacksPrice(r) /\ r.pub_date # None)
    => C24_TrendDataComplete


(***************************************************************************)
(* Properties of the runs without date window                              *)
(***************************************************************************)

\* the run that returned walked the pages and, having reconciled at least one
\* record with no fetch failed and nothing raised, ended with "success" and
\* one "success" audit entry
NormalRun ==
    /\ requested # << >>
    /\ (/\ HandedTotal > 0 /\ ~RaisedInRun
        /\ \A j \in 1..Len(responses) : ~IsFailure(responses[j])
        /\ summary.message # "create_log failed")
       => /\ summary.status = "success"
          /\ Len(EntriesOfRun) = 1 /\ EntriesOfRun[1].status = "success"

\* C25: a run without days_back is a normal run: it walks the pages of the
\* query, hands each page to the deduplication engine and, when the source
\* returns at least one record and no fetch fails, ends with status "success"
\* and one success audit entry, as a date-window run does
C25_RunWithoutWindow == (RunReturned /\ days_back = NoDays) => NormalRun

\* what a date-window run does
RunWithWindow == (RunReturned /\ days_back # NoDays) => NormalRun


(***************************************************************************)
(* Properties of the page count                                            *)
(***************************************************************************)

\* ceil(total_count / page_size), clamped to max_pages when it is supplied
\* and smaller
ClampedTotal ==
    IF max_pages # NoCap /\ max_pages < CeilDiv(total_count, limit) THEN max_pages
    ELSE CeilDiv(total_count, limit)

\* C26: once the first page reported total_count, the walk ends as soon as
\* its page counter reaches ceil(total_count / page_size), clamped to
\* max_pages, and requests no page number beyond it - also when total_count
\* is a multiple of the page size and every page is full
C26_PageCountBound ==
    (total_count # NoTotal /\ ~pgRaised)
    => /\ \A j \in 2..Len(requested) : requested[j] <= ClampedTotal
       /\ pgPc \in {"fetch", "sleep"} => current_page <= ClampedTotal

\* what ends the walk instead: a short page, the page cap, a failed fetch
WalkEndsOnShortPageOrCap ==
    (pgPc \in {"fetch", "sleep"} /\ responses # << >>)
    => /\ ~IsFailure(responses[Len(responses)])
       /\ responses[Len(responses)].n = limit
       /\ max_pages # NoCap => Len(requested) < max_pages


(***************************************************************************)
(* Termination of the walk                                                 *)
(***************************************************************************)

\* C27: a walk in which every fetch returns and whose first page reported a
\* total count makes finitely many fetches and returns, with or without
\* max_pages, also against a source that answers every page number with a
\* full page
C27_WalkTerminates == (pgPc = "fetch" /\ total_count # NoTotal) ~> (pgPc = "done")

\* the walks with a page cap do return
WalkWithCapTerminates == (pgPc = "fetch" /\ max_pages # NoCap) ~> (pgPc = "done")


(***************************************************************************)
(* Properties of the update on a key match                                 *)
(***************************************************************************)

\* the loop resolves the i-th record of the last batch as an update: its key
\* is in processed_in_batch or in the result of the batch lookup
ResolvedAsUpdate(st, existing, i) ==
    /\ Keyed(lastArg[i])
    /\ \/ UniqueKeyOfRecord(lastArg[i]) \in DOMAIN st.processed
       \/ UniqueKeyOfRecord(lastArg[i]) \in DOMAIN existing

\* the record leaves every row as it was (identifier and the 13 business
\* columns), adds none, and counts as one update
CountedNoOp(st, after) ==
    /\ after.table = st.table
    /\ after.updated = st.updated + 1
    /\ after.created = st.created

\* the records of the last batch that the loop resolved as updates
UpdatesOfBatch(existing) ==
    {i \in 1..Len(lastArg) : ResolvedAsUpdate(LoopState(existing, i), existing, i)}

\* C28: whenever bulk_create_or_update resolves a record as updated, matched
\* in the batch or in storage, the matched row keeps its identifier and its
\* 13 business columns, the updated counter grows by exactly 1 and no row is
\* added - also for records with null place / spec info, with an upstream id
\* of their own or with null prices
C28_UpdateIsNoOp ==
    lastOp = "bulk"
    => \A ex \in {exists_batch_by_unique_key(rowsBefore, lastArg)} :
         ~ex.raised
         => \A i \in UpdatesOfBatch(ex.result) :
               CountedNoOp(LoopState(ex.result, i), LoopState(ex.result, i + 1))

\* the record carries no upstream id, three prices and a place
PlainRecord(record) ==
    /\ record.id = NoId
    /\ Get(record, "lowPrice") # None /\ Get(record, "highPrice") # None
    /\ Get(record, "avgPrice") # None
    /\ Truthy(Get(record, "place"))

\* the same for the records without upstream id, null price or null place
UpdateIsNoOpOnPlainRecords ==
    lastOp = "bulk"
    => \A ex \in {exists_batch_by_unique_key(rowsBefore, lastArg)} :
         ~ex.raised
         => \A i \in UpdatesOfBatch(ex.result) :
               PlainRecord(lastArg[i])
               => CountedNoOp(LoopState(ex.result, i), LoopState(ex.result, i + 1))


(***************************************************************************)
(* Identity of the stored records                                          *)
(***************************************************************************)

\* every keyed record of the last batch has a business key of its own that
\* no stored row had before the call
AllNew ==
    /\ lastOp = "bulk" /\ KeyedRecords(lastArg) # {} /\ WellFormed(lastArg)
    /\ \A i, j \in KeyedRecords(lastArg) :
          i # j => BusinessKey(lastArg[i]) # BusinessKey(lastArg[j])
    /\ \A i \in KeyedRecords(lastArg) :
          \A r \in rowsBefore : RowBusinessKey(r) # BusinessKey(lastArg[i])

\* each of them was stored as a row of its own and counted as created, and
\* the rows stored before were left as they were
EachCreated ==
    /\ ~lastRes.raised
    /\ lastRes.created = Cardinality(KeyedRecords(lastArg))
    /\ lastRes.updated = 0
    /\ rowsBefore \subseteq rows
    /\ Cardinality(rows) = Cardinality(rowsBefore) + Cardinality(KeyedRecords(lastArg))
    /\ \A i \in KeyedRecords(lastArg) :
          \E r \in rows \ rowsBefore : RowBusinessKey(r) = BusinessKey(lastArg[i])

\* C29: records with different business keys are stored as separate rows
\* whatever upstream id they carry: a record whose business key is new is
\* created and counted as created, also when it carries the upstream id of a
\* stored row, and that row is left untouched
C29_IdentityIsBusinessKey == AllNew => EachCreated

\* the same for the records whose upstream id, if any, is not taken
IdentityWithFreshIds ==
    (/\ AllNew
     /\ \A i \in KeyedRecords(lastArg) :
           \/ lastArg[i].id = NoId
           \/ /\ \A r \in rowsBefore : r.id # lastArg[i].id
              /\ \A j \in KeyedRecords(lastArg) : j # i => lastArg[j].id # lastArg[i].id)
    => EachCreated


(***************************************************************************)
(* Uniqueness of the business key in storage                               *)
(***************************************************************************)

\* the records submitted by the calls made so far (at most two calls are
\* remembered)
Submitted == prevArg \o lastArg

\* no two stored rows have the same business key
KeysAreUnique ==
    \A r, q \in rows : RowBusinessKey(r) = RowBusinessKey(q) => r = q

\* C30: from empty storage, after any sequence of bulk_create_or_update and
\* create calls, no two stored rows have the same 13-field business key
\* (null and empty place / spec info identified), and there are no more rows
\* than distinct business keys among the records submitted so far, all keyed
C30_BusinessKeyUniqueness ==
    /\ KeysAreUnique
    /\ (callNo <= 2 /\ \A i \in 1..Len(Submitted) : Keyed(Submitted[i]))
       => Cardinality(rows) <= Cardinality(DistinctKeys(Submitted))

\* the same while every stored row has a place, a spec info and a publish time
UniqueAmongRowsWithoutNulls ==
    (\A r \in rows : r.place # None /\ r.spec_info # None /\ r.pub_date # None)
    => KeysAreUnique

(***************************************************************************)
(* C31: overlapping runs                                                   *)
(***************************************************************************)
\* both runs were handed the one-record page <<d>>, the existence check of
\* create() found the key absent in both, and both have returned
BothFoundAbsent(d) ==
    \A r \in RunIds : /\ overlap[r].pc = "done"
                      /\ overlap[r].records = <<d>>
                      /\ 1 \in overlap[r].absent

\* neither the primary key nor uq_all_business_fields can reject a second
\* row made from d: d carries no upstream id and one of its business columns
\* is stored as NULL
Unprotected(d) ==
    /\ d.id = NoId
    /\ \E c \in BusinessColumns : ToRow({}, d)[c] = None

\* two stored rows carry d's business key
StoredTwice(d) ==
    \E a, b \in rows : /\ a # b
                       /\ RowBusinessKey(a) = RowBusinessKey(b)
                       /\ RowBusinessKey(a) = RowBusinessKey(ToRow({}, d))

\* C31: when two overlapping runs both find the same new business key absent
\* before either has written it, both go on to the INSERT; for a record the
\* table's constraints do not protect both inserts are committed, storage
\* ends with two rows carrying that business key and both runs count the
\* record as created; otherwise the second INSERT is rejected, one row is
\* stored and one run counts it
C31_OverlapDuplicates ==
    \A d \in OverlapPool :
       BothFoundAbsent(d) =>
          IF Unprotected(d)
          THEN /\ StoredTwice(d)
               /\ \A r \in RunIds : overlap[r].created = 1 /\ 1 \in overlap[r].inserted
          ELSE /\ Cardinality(rows) = 1
               /\ Cardinality({r \in RunIds : overlap[r].created = 1}) = 1

\* the interleaving of the claim: both checks before either insert, two rows
\* with one business key, both runs counting a creation
C31_Witness ==
    \E d \in OverlapPool :
       /\ BothFoundAbsent(d) /\ Unprotected(d) /\ StoredTwice(d)
       /\ \A r \in RunIds : overlap[r].created = 1

(***************************************************************************)
(* C32: ingestion never deletes                                            *)
(***************************************************************************)
\* the rows of `table` whose business key is that of row r
RowsWithKeyOf(table, r) == {q \in table : RowBusinessKey(q) = RowBusinessKey(r)}

\* C32: no step of a reconcile removes a stored row: every business key
\* present in storage before the call is present afterwards, on a row with
\* the same identifier
C32_IngestionNeverDeletes ==
    lastOp = "bulk" =>
       \A r \in rowsBefore : \E q \in RowsWithKeyOf(rows, r) : q.id = r.id

\* what holds of the code: no row is removed and every business key that was
\* stored is still stored, on as many rows as before
KeysOnlyGrow ==
    lastOp = "bulk" =>
       /\ Cardinality(rows) >= Cardinality(rowsBefore)
       /\ \A r \in rowsBefore :
             Cardinality(RowsWithKeyOf(rows, r)) >= Cardinality(RowsWithKeyOf(rowsBefore, r))

(***************************************************************************)
(* C33: audit entries per run                                              *)
(***************************************************************************)
\* C33 as stated: every run leaves exactly one new audit entry, whose status
\* is the status of the returned summary
C33_AuditCompleteness_Original ==
    RunReturned =>
       /\ Len(EntriesOfRun) = 1
       /\ EntriesOfRun[1].status = summary.status

\* C33: every run leaves at most one new audit entry, and an entry it leaves
\* carries the status of the returned summary; a "success" summary comes with
\* exactly one entry, a "warning" summary with none, an "error" summary with
\* one unless the write of the error entry failed
C33_AuditAtMostOnce ==
    RunReturned =>
       /\ summary.status \in {"success", "warning", "error"}
       /\ Len(EntriesOfRun) <= 1
       /\ \A j \in 1..Len(EntriesOfRun) : EntriesOfRun[j].status = summary.status
       /\ summary.status = "success" => Len(EntriesOfRun) = 1
       /\ summary.status = "warning" => EntriesOfRun = << >>

\* a run that fetched a page, saw no record and returned "warning" without
\* leaving an audit entry
C33_Witness ==
    /\ RunReturned /\ requested # << >>
    /\ summary.status = "warning" /\ EntriesOfRun = << >>

(***************************************************************************)
(* C34: storage session scope                                              *)
(***************************************************************************)
\* C34: a run acquires exactly one storage session, every reconcile and the
\* audit entry of the run go through that session, it is the only session
\* open while the run is in progress, and no session is open once the run
\* has returned, whatever the summary
C34_SessionScope ==
    /\ syncPc = "scraping" =>
          /\ sessions.acquired = 1
          /\ sessions.open = {sessions.current}
          /\ sessions.used \subseteq {sessions.current}
    /\ syncPc = "idle" => sessions.open = {}
    /\ RunReturned =>
          /\ sessions.acquired = 1
          /\ sessions.used \subseteq {sessions.current}
          /\ summary.status # "warning" => sessions.used = {sessions.current}

\* the no-data return, reached with the run's session closed
C34_Witness ==
    /\ RunReturned /\ sessions.open = {} /\ sessions.current = runNo
    /\ summary.status = "warning"

(***************************************************************************)
(* C35: buffering in callback mode                                         *)
(***************************************************************************)
\* C35: when a save callback is supplied the accumulation buffer is empty in
\* every state of the walk, the pages handed to the callback hold at most
\* `limit` records each, and the call returns the empty sequence
C35_BoundedBuffering ==
    has_callback =>
       /\ all_records = << >>
       /\ \A k \in 1..Len(delivered) : Len(delivered[k].records) <= limit
       /\ (pgPc = "done" /\ ~pgRaised) => pgReturn = << >>

\* a walk with callback that handed over two full pages and a short one
C35_Witness ==
    /\ has_callback /\ pgPc = "done" /\ ~pgRaised /\ limit = 2
    /\ Len(delivered) = 3 /\ Len(delivered[3].records) = 1
    /\ all_records = << >> /\ pgReturn = << >>

(***************************************************************************)
(* C36: first occurrence wins across pages                                 *)
(***************************************************************************)
RECURSIVE RunRecords(_)
\* the records of the first k reconciles of the run that returned, in page
\* order and in input order inside each page
RunRecords(k) ==
    IF k = 0 THEN << >>
    ELSE RunRecords(k - 1) \o (IF reconciled[k].raised THEN << >> ELSE reconciled[k].records)

\* the first run, on a storage that was empty when it started, has returned
\* "success"
FirstRunSucceeded == RunReturned /\ runNo = 1 /\ summary.status = "success"

\* every business key of the run is stored on one row, new_records is the
\* number of distinct keys and every other keyed record counts as updated
FirstOccurrenceWins(records) ==
    /\ summary.new_records = Cardinality(DistinctKeys(records))
    /\ summary.updated_records =
          Cardinality(KeyedRecords(records)) - Cardinality(DistinctKeys(records))
    /\ \A key \in DistinctKeys(records) :
          Cardinality({q \in rows : RowBusinessKey(q) = key}) = 1

\* C36: within one run every business key is stored once, on the row created
\* from its first occurrence; every later occurrence, on the same page or on
\* a later one, is counted as updated, and new_records is the number of
\* distinct business keys that were absent when the run started
C36_FirstOccurrenceWins ==
    FirstRunSucceeded => FirstOccurrenceWins(RunRecords(Len(reconciled)))

\* what holds of the code: the same for the runs whose records all carry a
\* place, three prices and no upstream id
FirstOccurrenceWinsOnPlainRecords ==
    (/\ FirstRunSucceeded
     /\ \A k \in 1..Len(reconciled) : \A i \in 1..Len(reconciled[k].records) :
           PlainRecord(reconciled[k].records[i]))
    => FirstOccurrenceWins(RunRecords(Len(reconciled)))

(***************************************************************************)
(* C37: a failing page handler                                             *)
(***************************************************************************)
\* after the k-th invocation of the callback the walk went on by the two
\* termination rules: it ended on a short page or at the cap, otherwise it
\* moved to the next page
WalkWentOn(k) ==
    \E j \in {delivered[k].fetches} : \E p \in {delivered[k].page} :
       IF IsLastPage(responses[j].n, limit) \/ CapReached(max_pages, p)
       THEN Len(requested) = j
       ELSE \/ Len(requested) > j /\ requested[j + 1] = p + 1
            \/ Len(requested) = j /\ pgPc \in {"sleep", "fetch"} /\ current_page = p + 1

\* C37: when the save callback raises for a page, scrape_all_pages does not
\* raise and goes on to the next page by the same termination rules, and the
\* records of that page are in none of the run's three totals
C37_FailingHandler ==
    (immediate_save /\ runNo > 0)
    => /\ Len(reconciled) = Len(delivered)
       /\ \A k \in 1..Len(delivered) :
             delivered[k].raised
             => /\ reconciled[k].raised
                /\ ~pgRaised
                /\ WalkWentOn(k)
       /\ syncPc = "scraping" =>
             /\ total_records = HandedTotal
             /\ total_new_count = HandedNew
             /\ total_updated_count = HandedUpdated

\* the callback raised for page 1, page 2 was fetched and reconciled, and the
\* run ended with status "success" counting the records of page 2 only
C37_Witness ==
    /\ RunReturned /\ immediate_save /\ summary.status = "success"
    /\ Len(delivered) = 2 /\ delivered[1].raised /\ ~delivered[2].raised
    /\ delivered[2].page = delivered[1].page + 1
    /\ summary.total_records = reconciled[2].n

(***************************************************************************)
(* C38: the counters of a reconcile                                        *)
(***************************************************************************)
\* the last call was a bulk_create_or_update that returned
BulkReturned == lastOp = "bulk" /\ ~lastRes.raised

\* created + updated is at most the number of records with product name and
\* publish timestamp, and equal to it when no create or update failed
CountersBounded ==
    BulkReturned =>
       /\ lastRes.created + lastRes.updated <= Cardinality(KeyedRecords(lastArg))
       /\ (\A i \in 1..Len(lastArg) : ~StorageFailed(i))
          => lastRes.created + lastRes.updated = Cardinality(KeyedRecords(lastArg))

\* C38: for every call of bulk_create_or_update that returns, created +
\* updated is at most the number of keyed records, with equality when no
\* storage operation failed, and created is the number of rows the call
\* added to storage
C38_CounterInvariant ==
    /\ CountersBounded
    /\ BulkReturned => lastRes.created = Cardinality(rows) - Cardinality(rowsBefore)

\* what holds of the summaries: new_records + updated_records <= total_records
SummaryCountersBounded ==
    RunReturned => summary.new_records + summary.updated_records <= summary.total_records

\* the price texts of the record are the ones Python renders the stored
\* floats with
ReprPrices(record) ==
    \A f \in {"lowPrice", "highPrice", "avgPrice"} :
       Get(record, f) = None \/ ParseFloat(Get(record, f)) = Get(record, f)

\* what holds of the code: created is at least the number of rows added, and
\* equal to it when every price of the batch is written as its float prints
CreatedCoversRowsAdded ==
    BulkReturned =>
       /\ lastRes.created >= Cardinality(rows) - Cardinality(rowsBefore)
       /\ (\A i \in 1..Len(lastArg) : ReprPrices(lastArg[i]))
          => lastRes.created = Cardinality(rows) - Cardinality(rowsBefore)

(***************************************************************************)
(* C39: duplicate cleanup                                                  *)
(***************************************************************************)
\* the row of every group that the call was to keep: the last id of
\* record_ids with keep_latest, the first one without
Kept(group) ==
    IF cleaned.keep_latest THEN group.record_ids[Len(group.record_ids)]
    ELSE group.record_ids[1]

RunEnded == sched.pc \in {"waiting", "loop", "exited"} /\ sched.runs > 0

\* the next run has started, or the scheduler was interrupted from the keyboard
NextRunOrInterrupt == sched.pc = "running" \/ sched.interrupted

\* C40: the main loop runs one ingestion at a time and, unless interrupted
\* from the keyboard, never ends: after every run, whatever its outcome, it
\* waits the interval and eventually starts the next run
C40_SchedulerLiveness ==
    /\ [](sched.pc # "exited")
    /\ [][sched'.pc = "running" => sched.pc \in {"loop", "running"}]_vars
    /\ RunEnded ~> NextRunOrInterrupt

\* what holds of the code: after a run that returned "success" or "warning"
\* the scheduler sleeps INTERVAL_SECONDS and starts the next run, unless
\* interrupted; it leaves the loop otherwise only after an "error" summary or
\* an exception in the run
SchedulerGoesOnAfterSuccess ==
    /\ (sched.pc = "waiting") ~> NextRunOrInterrupt
    /\ [](sched.pc = "exited"
          => /\ Len(sched.outcomes) = MaxSchedRuns
                \/ sched.outcomes[Len(sched.outcomes)] \in {"error", "raised"}
             /\ ~sched.interrupted)
    /\ [](sched.pc = "running" /\ sched.runs > 1 => sched.slept = INTERVAL_SECONDS)

====
